---- MODULE Spec2Model ----
(***************************************************************************)
(* Model of the Argos GUI state machines:                                  *)
(*   - libargos/collect/collector.py : Collector (axis combo boxes and     *)
(*     scalar spin boxes of the current repo tree item)                    *)
(*   - argos/reg/tabview.py          : TableEditWidget (add/remove/move)   *)
(*   - libargos/repo/rtiplugins/ncdf.py : the netCDF repo tree items       *)
(*   - libargos/widgets/mainwindow.py : MainWindow.openFiles               *)
(*   - argos/widgets/pluginsdialog.py : RegistryTab                        *)
(* Qt widgets are modelled by the fields the code reads and writes.        *)
(***************************************************************************)
EXTENDS Integers, Sequences, FiniteSets, TLC

\* ------------------------------------------------------------------ bounds
MaxDims == 2        \* largest rank of the enumerated shapes
MaxSize == 1        \* largest dimension length of the enumerated shapes
MaxAxes == 3        \* largest number of combo labels
MaxTyped == 0       \* largest value the user enters in a spin box
MaxRows == 3        \* largest number of rows of the edited table
NumGroups == 1      \* groups in the root group of the netCDF file
NumFields == 2      \* fields of a compound netCDF variable
MaxRank == 2        \* largest rank of a netCDF variable and of a sub-array
MaxFiles == 3       \* largest number of files in one call of openFiles
NumPlugins == 2     \* entries of the plugin registry
MaxPending == 2     \* largest number of user events that wait at a time
MaxRtiClasses == 2  \* largest number of registered RTI classes
MaxWindows == 2     \* largest number of MainWindows of one process
NumColumns == 2     \* columns of the edited table

\* --------------------------------------------------------------- constants
FAKE_DIM_IDX == -999
NO_ITEM_DATA == -1000   \* itemData() of an invalid index (Python None)
INVALID_ROW == -1       \* row() and column() of an invalid QModelIndex

VARIABLES
    rti,             \* Collector._rti
    comboLabels,     \* Collector._comboLabels
    comboBoxes,      \* Collector._comboBoxes
    spinBoxes,       \* Collector._spinBoxes
    signalsBlocked,  \* Collector._signalsBlocked
    emissions,       \* contentsChanged emissions of the last operation
    lastOp,          \* the last Collector operation and the state it started from
    assertionFailed, \* an assert statement of the Collector has failed
    items,           \* rows of the table model of the TableEditWidget
    currentIndex,    \* tableView.currentIndex()
    buttons,         \* which buttons of the TableEditWidget are enabled
    lastEdit,        \* the last TableEditWidget operation and where it started
    ncNodes,         \* the nodes of the netCDF file in the repository tree
    ncFailure,       \* the assertion or call of ncdf.py that has failed
    ncLast,          \* the last call on a netCDF node and the tree before it
    fieldRti,        \* a NcdfFieldRti: its netCDF variable and its node name
    fieldResult,     \* the last index applied to the field node and the result
    debugging,       \* libargos.info.DEBUGGING
    unreadable,      \* the file names that loadFile raises an Exception for
    openRun,         \* the last call of openFiles: what it tried and showed
    openAsMenu,      \* the actions of the 'Open As' menu and what their slots refer to
    regItems,        \* the ClassRegItems of the registry of the RegistryTab
    importOnSelectFlag, \* RegistryTab._importOnSelect
    currentRow,      \* the current row of the table of the tab, 0 for none
    editor,          \* the detail text below the table
    pending,         \* the events of the user that wait for the event loop
    tabLast,         \* the last event dispatched and the tab before it
    settings,        \* the QSettings store: key -> value
    nInstances,      \* MainWindow._nInstances
    windows,         \* the MainWindows of the process, by instance number
    closedAs,        \* the geometry at the last close event, by instance number
    winLast,         \* the last MainWindow operation and the store before it
    objects,         \* the ClassRegItems there are, by identity
    orgRegistry,     \* PluginsDialog._orgRegistry.items, the application's registry
    dlgRegistry,     \* PluginsDialog._registry.items
    dlgTab,          \* current row and detail text of the tab of the dialog
    dialogState,     \* "none", "open", "accepted" or "rejected"
    dlgLast          \* the last step of the dialog and the original when it was made

collectorVars == <<rti, comboLabels, comboBoxes, spinBoxes, signalsBlocked,
                   emissions, lastOp, assertionFailed>>
tableVars == <<items, currentIndex, buttons, lastEdit>>
vars == <<rti, comboLabels, comboBoxes, spinBoxes, signalsBlocked,
          emissions, lastOp, assertionFailed, items, currentIndex, buttons,
          lastEdit,
          ncNodes, ncFailure, ncLast,
          fieldRti, fieldResult,
          debugging, unreadable, openRun, openAsMenu,
          regItems, importOnSelectFlag, currentRow, editor, pending, tabLast,
          settings, nInstances, windows, closedAs, winLast,
          objects, orgRegistry, dlgRegistry, dlgTab, dialogState, dlgLast>>
ncdfVars == <<ncNodes, ncFailure, ncLast>>
fieldVars == <<fieldRti, fieldResult>>
openVars == <<debugging, unreadable, openRun, openAsMenu>>
pluginVars == <<regItems, importOnSelectFlag, currentRow, editor, pending, tabLast>>
windowVars == <<settings, nInstances, windows, closedAs, winLast>>
dialogVars == <<objects, orgRegistry, dlgRegistry, dlgTab, dialogState, dlgLast>>

\* What the actions of one widget leave alone.
exceptCollector == <<tableVars, ncdfVars, fieldVars, openVars, pluginVars, windowVars, dialogVars>>
exceptTable == <<collectorVars, ncdfVars, fieldVars, openVars, pluginVars, windowVars, dialogVars>>
exceptNcdf == <<collectorVars, tableVars, fieldVars, openVars, pluginVars, windowVars, dialogVars>>
exceptField == <<collectorVars, tableVars, ncdfVars, openVars, pluginVars, windowVars, dialogVars>>
exceptOpen == <<collectorVars, tableVars, ncdfVars, fieldVars, pluginVars, windowVars, dialogVars>>
exceptPlugins == <<collectorVars, tableVars, ncdfVars, fieldVars, openVars,
                   windowVars, dialogVars>>
exceptWindow == <<collectorVars, tableVars, ncdfVars, fieldVars, openVars,
                  pluginVars, dialogVars>>
exceptDialog == <<collectorVars, tableVars, ncdfVars, fieldVars, openVars,
                  pluginVars, windowVars>>

\* ----------------------------------------------------------------- helpers
Max(a, b) == IF a >= b THEN a ELSE b
Min(a, b) == IF a <= b THEN a ELSE b

\* The example array of the documentation and one with odd sizes, next to
\* the enumerated shapes.
ExampleShape == <<10, 20, 30>>
OddShape == <<5, 3>>

Shapes == UNION {[1..n -> 1..MaxSize] : n \in 1..MaxDims}
              \cup {ExampleShape, OddShape}

AxisLabels == <<"X-Axis", "Y-Axis", "Z-Axis", "T-Axis">>

LabelLists == {SubSeq(AxisLabels, 1, k) : k \in 1..MaxAxes}

\* A repo tree item: None, an item without an array, or an item with one.
NoRti == [isNone |-> TRUE, hasArray |-> FALSE, shape |-> <<>>]
RtiWithoutArray == [isNone |-> FALSE, hasArray |-> FALSE, shape |-> <<>>]
RtiWithArray(shape) == [isNone |-> FALSE, hasArray |-> TRUE, shape |-> shape]

\* ------------------------------------------------------------- Qt widgets
NewComboBox == [items |-> <<>>, currentIndex |-> -1, signalsBlocked |-> FALSE]

\* QComboBox.addItem: the first item of an empty box becomes the current one.
AddItem(cb, userData) ==
    [cb EXCEPT !.items = Append(@, userData),
               !.currentIndex = IF Len(cb.items) = 0 THEN 0 ELSE @]

\* QComboBox.setCurrentIndex: an index that is no item leaves no current item.
SetCurrentIndex(cb, index) ==
    [cb EXCEPT !.currentIndex =
        IF index >= 0 /\ index < Len(cb.items) THEN index ELSE -1]

\* QComboBox.findData: the index of the first item with that data, else -1.
FindData(cb, userData) ==
    IF \E i \in 1..Len(cb.items) : cb.items[i] = userData
    THEN (CHOOSE i \in 1..Len(cb.items) :
             /\ cb.items[i] = userData
             /\ \A j \in 1..(i-1) : cb.items[j] # userData) - 1
    ELSE -1

\* QComboBox.itemData(index)
ItemData(cb, index) ==
    IF index >= 0 /\ index < Len(cb.items) THEN cb.items[index + 1] ELSE NO_ITEM_DATA

_comboBoxDimensionIndex(cb) == ItemData(cb, cb.currentIndex)

_dimensionSelectedInComboBox(boxes, dimNr) ==
    \E i \in 1..Len(boxes) : _comboBoxDimensionIndex(boxes[i]) = dimNr

\* ------------------------------------------------ Collector: state records
\* The part of the Collector a handler reads and writes while it runs.
Self == [comboBoxes |-> comboBoxes, spinBoxes |-> spinBoxes,
         signalsBlocked |-> signalsBlocked, emitted |-> <<>>,
         assertionFailed |-> assertionFailed]

Snapshot(s) == [comboBoxes |-> s.comboBoxes, spinBoxes |-> s.spinBoxes,
                signalsBlocked |-> s.signalsBlocked]

\* contentsChanged.emit(): the listeners see the Collector as it is right now.
EmitContentsChanged(s) == [s EXCEPT !.emitted = Append(@, Snapshot(s))]

blockChildrenSignals(s, block) ==
    [s EXCEPT
        !.spinBoxes = [i \in 1..Len(s.spinBoxes) |->
                          [s.spinBoxes[i] EXCEPT !.signalsBlocked = block]],
        !.comboBoxes = [i \in 1..Len(s.comboBoxes) |->
                          [s.comboBoxes[i] EXCEPT !.signalsBlocked = block]],
        !.signalsBlocked = block]

\* Mutant: the new blocking state is returned.
blockChildrenSignals_result_New(s, block) == block

\* result = self._signalsBlocked: what blockChildrenSignals returns.
blockChildrenSignals_result(s, block) == s.signalsBlocked

\* Mutant: the list of spin boxes is kept.
_deleteSpinBoxes_Keeps(s) == s

_deleteSpinBoxes(s) == [s EXCEPT !.spinBoxes = <<>>]

\* --------------------------------------------------- _populateComboBoxes
\* Mutant: the n-th combo box is set to the item of dimension nDims - 2 - n.
RECURSIVE AddDimensions_OffByOne(_, _, _, _)
AddDimensions_OffByOne(cb, comboBoxNr, nDims, dimNr) ==
    IF dimNr >= nDims THEN cb
    ELSE AddDimensions_OffByOne(
            SetCurrentIndex(AddItem(cb, dimNr), Max(0, nDims - comboBoxNr - 1)),
            comboBoxNr, nDims, dimNr + 1)

RECURSIVE AddDimensions(_, _, _, _)
AddDimensions(cb, comboBoxNr, nDims, dimNr) ==
    IF dimNr >= nDims THEN cb
    ELSE AddDimensions(
            SetCurrentIndex(AddItem(cb, dimNr), Max(0, nDims - comboBoxNr)),
            comboBoxNr, nDims, dimNr + 1)

PopulateOne(cb, comboBoxNr, nDims) ==
    AddDimensions(AddItem(cb, FAKE_DIM_IDX), comboBoxNr, nDims, 0)

ClearComboBox(cb) == [cb EXCEPT !.items = <<>>, !.currentIndex = -1]

_populateComboBoxes(s, r) ==
    LET cleared == [i \in 1..Len(s.comboBoxes) |-> ClearComboBox(s.comboBoxes[i])]
    IN  IF r.isNone \/ ~r.hasArray
        THEN [s EXCEPT !.comboBoxes = cleared]
        ELSE [s EXCEPT !.comboBoxes =
                 [i \in 1..Len(cleared) |-> PopulateOne(cleared[i], i - 1, Len(r.shape))]]

\* ------------------------------------------------------------- QSpinBox
\* A freshly constructed QSpinBox: range [0, 99], value 0, nothing connected.
NewSpinBox(dimNr) == [dimNr |-> dimNr, minimum |-> 0, maximum |-> 99, value |-> 0,
                      connected |-> FALSE, signalsBlocked |-> FALSE,
                      inTree |-> FALSE]

\* Mutant: the slot emits contentsChanged twice.
_SpinboxValueChanged_Twice(s) == EmitContentsChanged(EmitContentsChanged(s))

_SpinboxValueChanged(s) == EmitContentsChanged(s)

\* The spin box i of s gets the value v, bound to its range; valueChanged is
\* delivered to the connected slot when the value changed and is not blocked.
SpinBoxApply(s, i, lo, hi, v) ==
    LET sb == s.spinBoxes[i]
        nv == Max(lo, Min(hi, v))
        s1 == [s EXCEPT !.spinBoxes[i] =
                  [sb EXCEPT !.minimum = lo, !.maximum = hi, !.value = nv]]
    IN  IF nv # sb.value /\ sb.connected /\ ~sb.signalsBlocked
        THEN _SpinboxValueChanged(s1)
        ELSE s1

SetMinimum(s, i, lo) ==
    SpinBoxApply(s, i, lo, Max(lo, s.spinBoxes[i].maximum), s.spinBoxes[i].value)

SetMaximum(s, i, hi) ==
    SpinBoxApply(s, i, Min(hi, s.spinBoxes[i].minimum), hi, s.spinBoxes[i].value)

SetValue(s, i, v) ==
    SpinBoxApply(s, i, s.spinBoxes[i].minimum, s.spinBoxes[i].maximum, v)

ConnectValueChanged(s, i) == [s EXCEPT !.spinBoxes[i].connected = TRUE]

\* tree.setIndexWidget(index, spinBox): the spin box is shown in the row.
SetIndexWidget(s, i) == [s EXCEPT !.spinBoxes[i].inTree = TRUE]

\* ------------------------------------------------------ _createSpinBoxes
\* Mutant: the maximum is the dimension size, one past the last index.
CreateSpinBox_MaxIsSize(s, dimNr, dimSize) ==
    LET s1 == [s EXCEPT !.spinBoxes = Append(@, NewSpinBox(dimNr))]
        i  == Len(s1.spinBoxes)
        s2 == SetMinimum(s1, i, 0)
        s3 == SetMaximum(s2, i, dimSize)
        s4 == SetValue(s3, i, dimSize \div 2)
    IN  SetIndexWidget(ConnectValueChanged(s4, i), i)

\* Mutant: the spin box starts at the first index, not at the middle.
CreateSpinBox_NoMiddle(s, dimNr, dimSize) ==
    LET s1 == [s EXCEPT !.spinBoxes = Append(@, NewSpinBox(dimNr))]
        i  == Len(s1.spinBoxes)
        s2 == SetMinimum(s1, i, 0)
        s3 == SetMaximum(s2, i, dimSize - 1)
    IN  SetIndexWidget(ConnectValueChanged(s3, i), i)

\* Mutant: valueChanged is connected before the first value is set.
CreateSpinBox_ConnectFirst(s, dimNr, dimSize) ==
    LET s1 == [s EXCEPT !.spinBoxes = Append(@, NewSpinBox(dimNr))]
        i  == Len(s1.spinBoxes)
        s2 == SetMinimum(ConnectValueChanged(s1, i), i, 0)
        s3 == SetMaximum(s2, i, dimSize - 1)
        s4 == SetValue(s3, i, dimSize \div 2)
    IN  SetIndexWidget(s4, i)

\* The body of the loop for one dimension that no combo box has selected.
CreateSpinBox(s, dimNr, dimSize) ==
    LET s1 == [s EXCEPT !.spinBoxes = Append(@, NewSpinBox(dimNr))]
        i  == Len(s1.spinBoxes)
        s2 == SetMinimum(s1, i, 0)
        s3 == SetMaximum(s2, i, dimSize - 1)
        s4 == SetValue(s3, i, dimSize \div 2)
    IN  SetIndexWidget(ConnectValueChanged(s4, i), i)

RECURSIVE CreateSpinBoxLoop(_, _, _)
CreateSpinBoxLoop(s, shape, dimNr) ==
    IF dimNr >= Len(shape) THEN s
    ELSE IF _dimensionSelectedInComboBox(s.comboBoxes, dimNr)
         THEN CreateSpinBoxLoop(s, shape, dimNr + 1)
         ELSE CreateSpinBoxLoop(CreateSpinBox(s, dimNr, shape[dimNr + 1]),
                                shape, dimNr + 1)

_createSpinBoxes(s, r) ==
    IF Len(s.spinBoxes) # 0
    THEN [s EXCEPT !.assertionFailed = TRUE]
    ELSE IF r.isNone \/ ~r.hasArray
         THEN s
         ELSE CreateSpinBoxLoop(s, r.shape, 0)

\* ---------------------------------------------------- _comboBoxActivated
\* Mutant: the other combo boxes are left as they are.
ResetOtherComboBoxes_None(s, comboBoxNr) == s

\* Mutant: every other combo box goes to the fake dimension.
ResetOtherComboBoxes_All(s, comboBoxNr) ==
    [s EXCEPT !.comboBoxes =
        [i \in 1..Len(s.comboBoxes) |->
            IF i # comboBoxNr
            THEN SetCurrentIndex(s.comboBoxes[i],
                                 FindData(s.comboBoxes[i], FAKE_DIM_IDX))
            ELSE s.comboBoxes[i]]]

\* The other combo boxes showing the same item go to the fake dimension.
ResetOtherComboBoxes(s, comboBoxNr) ==
    LET comboBox == s.comboBoxes[comboBoxNr]
    IN  [s EXCEPT !.comboBoxes =
            [i \in 1..Len(s.comboBoxes) |->
                IF i # comboBoxNr
                   /\ s.comboBoxes[i].currentIndex = comboBox.currentIndex
                THEN SetCurrentIndex(s.comboBoxes[i],
                                     FindData(s.comboBoxes[i], FAKE_DIM_IDX))
                ELSE s.comboBoxes[i]]]

\* Mutant: contentsChanged is emitted before the blocking state is restored.
_comboBoxActivated_EmitEarly(s, r, comboBoxNr) ==
    LET blocked == blockChildrenSignals_result(s, TRUE)
        s1 == blockChildrenSignals(s, TRUE)
        curDimIdx == _comboBoxDimensionIndex(s1.comboBoxes[comboBoxNr])
        s2 == IF curDimIdx # FAKE_DIM_IDX
              THEN ResetOtherComboBoxes(s1, comboBoxNr)
              ELSE s1
        s3 == _deleteSpinBoxes(s2)
        s4 == _createSpinBoxes(s3, r)
    IN  blockChildrenSignals(EmitContentsChanged(s4), blocked)

\* Mutant: the spin boxes are left as they are.
_comboBoxActivated_NoRebuild(s, r, comboBoxNr) ==
    LET blocked == blockChildrenSignals_result(s, TRUE)
        s1 == blockChildrenSignals(s, TRUE)
        curDimIdx == _comboBoxDimensionIndex(s1.comboBoxes[comboBoxNr])
        s2 == IF curDimIdx # FAKE_DIM_IDX
              THEN ResetOtherComboBoxes(s1, comboBoxNr)
              ELSE s1
        s5 == blockChildrenSignals(s2, blocked)
    IN  EmitContentsChanged(s5)

_comboBoxActivated(s, r, comboBoxNr) ==
    LET blocked == blockChildrenSignals_result(s, TRUE)
        s1 == blockChildrenSignals(s, TRUE)
        curDimIdx == _comboBoxDimensionIndex(s1.comboBoxes[comboBoxNr])
        s2 == IF curDimIdx # FAKE_DIM_IDX
              THEN ResetOtherComboBoxes(s1, comboBoxNr)
              ELSE s1
        s3 == _deleteSpinBoxes(s2)
        s4 == _createSpinBoxes(s3, r)
        s5 == blockChildrenSignals(s4, blocked)
    IN  EmitContentsChanged(s5)

\* ------------------------------------------------------------------ setRti
setRti(s, r) ==
    LET s1 == _deleteSpinBoxes(s)
        s2 == _populateComboBoxes(s1, r)
        s3 == _createSpinBoxes(s2, r)
    IN  EmitContentsChanged(s3)

\* --------------------------------------------------- clearAndSetComboBoxes
_deleteComboBoxes(s) == [s EXCEPT !.comboBoxes = <<>>]

_createComboBoxes(s, labels) ==
    [s EXCEPT !.comboBoxes = s.comboBoxes \o [i \in 1..Len(labels) |-> NewComboBox]]

\* clear(): model.removeRows(0, 1) takes the widgets of the row out of the
\* tree; the Collector keeps its list of spin boxes.
clear(s) ==
    [s EXCEPT !.spinBoxes = [i \in 1..Len(s.spinBoxes) |->
                                [s.spinBoxes[i] EXCEPT !.inTree = FALSE]]]

clearAndSetComboBoxes(s, labels) ==
    _createComboBoxes(clear(_deleteComboBoxes(s)), labels)

\* ----------------------------------------------------- Collector actions
\* What an operation started from: the axis selections and the dimensions
\* with a spin box, but not the spin box values.
Dims(boxes) == [i \in 1..Len(boxes) |-> _comboBoxDimensionIndex(boxes[i])]
SpinDims(boxes) == [i \in 1..Len(boxes) |-> boxes[i].dimNr]

Before == [dims |-> Dims(comboBoxes), spinDims |-> SpinDims(spinBoxes),
           signalsBlocked |-> signalsBlocked]

Commit(s) ==
    /\ comboBoxes' = s.comboBoxes
    /\ spinBoxes' = s.spinBoxes
    /\ signalsBlocked' = s.signalsBlocked
    /\ emissions' = s.emitted
    /\ assertionFailed' = s.assertionFailed

SetRti ==
    \E r \in {RtiWithoutArray} \cup {RtiWithArray(shape) : shape \in Shapes} :
        /\ rti' = r
        /\ Commit(setRti(Self, r))
        /\ lastOp' = [op |-> "setRti", comboBoxNr |-> 0, index |-> 0, before |-> Before]
        /\ UNCHANGED <<comboLabels, exceptCollector>>

\* The user picks item index of combo box comboBoxNr; Qt makes it the current
\* item and then sends activated(index).
ComboBoxActivated ==
    \E comboBoxNr \in 1..Len(comboBoxes) :
      \E index \in 0..(Len(comboBoxes[comboBoxNr].items) - 1) :
        LET picked == [Self EXCEPT !.comboBoxes[comboBoxNr] =
                          SetCurrentIndex(@, index)]
        IN  /\ ~comboBoxes[comboBoxNr].signalsBlocked
            /\ Commit(_comboBoxActivated(picked, rti, comboBoxNr))
            /\ lastOp' = [op |-> "comboBoxActivated", comboBoxNr |-> comboBoxNr,
                          index |-> index, before |-> Before]
            /\ UNCHANGED <<rti, comboLabels, exceptCollector>>

\* The user changes the value of spin box i; Qt sends valueChanged.
SpinboxValueChanged ==
    \E i \in 1..Len(spinBoxes) :
      \E v \in spinBoxes[i].minimum..Min(spinBoxes[i].maximum, MaxTyped) :
        /\ spinBoxes[i].inTree
        /\ v # spinBoxes[i].value
        /\ Commit(SetValue(Self, i, v))
        /\ lastOp' = [op |-> "spinboxValueChanged", comboBoxNr |-> i,
                      index |-> v, before |-> Before]
        /\ UNCHANGED <<rti, comboLabels, exceptCollector>>

ClearAndSetComboBoxes ==
    \E labels \in LabelLists :
        /\ comboLabels' = labels
        /\ Commit(clearAndSetComboBoxes(Self, labels))
        /\ lastOp' = [op |-> "clearAndSetComboBoxes", comboBoxNr |-> 0,
                      index |-> 0, before |-> Before]
        /\ UNCHANGED <<rti, exceptCollector>>

\* A client of the Collector calls blockChildrenSignals(block); index keeps
\* what the call returned.
BlockChildrenSignals ==
    \E block \in BOOLEAN :
        /\ Commit(blockChildrenSignals(Self, block))
        /\ lastOp' = [op |-> "blockChildrenSignals", comboBoxNr |-> 0,
                      index |-> blockChildrenSignals_result(Self, block),
                      before |-> Before]
        /\ UNCHANGED <<rti, comboLabels, exceptCollector>>

\* Collector.__init__: no rti, then clearAndSetComboBoxes(['X-Axis', 'Y-Axis']).
InitLabels == SubSeq(AxisLabels, 1, 2)

InitCollector ==
    /\ rti = NoRti
    /\ comboLabels = InitLabels
    /\ comboBoxes = [i \in 1..Len(InitLabels) |-> NewComboBox]
    /\ spinBoxes = <<>>
    /\ signalsBlocked = FALSE
    /\ emissions = <<>>
    /\ assertionFailed = FALSE
    /\ lastOp = [op |-> "init", comboBoxNr |-> 0, index |-> 0,
                 before |-> [dims |-> <<>>, spinDims |-> <<>>,
                             signalsBlocked |-> FALSE]]

InitTableIdle ==
    /\ items = <<>>
    /\ currentIndex = [row |-> INVALID_ROW, column |-> INVALID_ROW]
    /\ buttons = [add |-> TRUE, remove |-> FALSE, moveUp |-> FALSE,
                  moveDown |-> FALSE]
    /\ lastEdit = [op |-> "init", number |-> 0, row |-> INVALID_ROW,
                   column |-> INVALID_ROW, items |-> <<>>]

\* =========================================================================
\* TableEditWidget (argos/reg/tabview.py) over a table model holding the
\* sequence items; an item is identified by a number.
\* =========================================================================
InvalidIndex == [row |-> INVALID_ROW, column |-> INVALID_ROW]

rowCount(its) == Len(its)

ItemSet(its) == {its[i] : i \in 1..Len(its)}

\* model.createItem(): a new item, none of the items of the table.
createItem(its) == CHOOSE id \in 1..(Len(its) + 1) : id \notin ItemSet(its)

\* model.insertItem(item, row=row): item becomes the row with that number.
insertItem(its, item, row) ==
    SubSeq(its, 1, row) \o <<item>> \o SubSeq(its, row + 1, Len(its))

\* model.popItemAtRow(row): the row with that number is taken out.
popItemAtRow(its, row) ==
    SubSeq(its, 1, row) \o SubSeq(its, row + 2, Len(its))

\* BaseTableView.setCurrentCell: model.index(row, col) is the invalid index
\* when the cell does not exist, and becomes the current index all the same.
setCurrentCell(its, row, col) ==
    IF row >= 0 /\ row < rowCount(its) /\ col >= 0 /\ col < NumColumns
    THEN [row |-> row, column |-> col]
    ELSE InvalidIndex

\* Mutant: the new item always goes to the end.
AddRowTarget_Append(curRow, numRows) == numRows

\* addRow: the row the new item is inserted at.
AddRowTarget(curRow, numRows) == IF curRow < 0 THEN numRows ELSE curRow

AddColumnTarget(curCol) == IF curCol < 0 THEN 0 ELSE curCol

\* Mutant: the cursor stays on the row number it had.
RemoveRowCursor_Unclipped(curRow, numRows) == curRow

\* removeRow: the row of the cursor after the removal, numRows counted after it.
RemoveRowCursor(curRow, numRows) == Min(curRow, numRows - 1)

\* moveRow that leaves the cursor where it was.
MoveRowCursor_Stays(curRow, number, numRows) == curRow

\* moveRow without the clip.
MoveRowCursor_Unclipped(curRow, number, numRows) == curRow + number

\* moveRow: the row of the cursor after the move.
MoveRowCursor(curRow, number, numRows) == Max(0, Min(curRow + number, numRows - 1))

\* updateWidgets without the lower limit of the row.
updateWidgets_NoLowerLimit(row, numRows) ==
    [add      |-> TRUE,
     remove   |-> row < numRows,
     moveUp   |-> (1 <= row /\ row < numRows),
     moveDown |-> row < numRows - 1]

\* updateWidgets: the buttons that fit the current row and the row count.
updateWidgets(row, numRows) ==
    [add      |-> TRUE,
     remove   |-> (0 <= row /\ row < numRows),
     moveUp   |-> (1 <= row /\ row < numRows),
     moveDown |-> (0 <= row /\ row < numRows - 1)]

\* The table view while a handler runs: the rows of its model, its current
\* index and the buttons next to it.
View == [items |-> items, currentIndex |-> currentIndex, buttons |-> buttons]

\* onCurrentChanged, the slot of selectionModel().currentChanged.
onCurrentChanged(v) ==
    [v EXCEPT !.buttons = updateWidgets(v.currentIndex.row, rowCount(v.items))]

\* QItemSelectionModel.setCurrentIndex: currentChanged is sent when the index
\* is another one than before.
SelectIndex(v, index) ==
    IF index = v.currentIndex
    THEN v
    ELSE onCurrentChanged([v EXCEPT !.currentIndex = index])

\* tableView.setCurrentCell(row, col)
ViewSetCurrentCell(v, row, col) == SelectIndex(v, setCurrentCell(v.items, row, col))

\* model.insertItem as the view sees it: the rows from row on move down by
\* one, and the current index with them; no currentChanged is sent.
ViewInsertItem(v, item, row) ==
    [v EXCEPT !.items = insertItem(v.items, item, row),
              !.currentIndex =
                  IF v.currentIndex.row >= row
                  THEN [v.currentIndex EXCEPT !.row = @ + 1]
                  ELSE v.currentIndex]

\* model.popItemAtRow as the view sees it: before the row goes, a current index
\* on it moves to the row above, else to the row below, else becomes invalid,
\* and currentChanged is sent; then the rows below move up by one.
ViewPopItemAtRow(v, row) ==
    LET numRows == rowCount(v.items)
        col     == v.currentIndex.column
        moved   == IF v.currentIndex.row # row THEN v
                   ELSE IF row > 0
                        THEN SelectIndex(v, [row |-> row - 1, column |-> col])
                        ELSE IF row < numRows - 1
                             THEN SelectIndex(v, [row |-> row + 1, column |-> col])
                             ELSE SelectIndex(v, InvalidIndex)
    IN  [moved EXCEPT !.items = popItemAtRow(v.items, row),
                      !.currentIndex =
                          IF moved.currentIndex.row > row
                          THEN [moved.currentIndex EXCEPT !.row = @ - 1]
                          ELSE moved.currentIndex]

\* model.moveItem(fromRow, toRow): the item goes to the other row; a row that
\* does not exist leaves the table as it is.
ViewMoveItem(v, fromRow, toRow) ==
    IF toRow < 0 \/ toRow >= rowCount(v.items)
    THEN v
    ELSE ViewInsertItem(ViewPopItemAtRow(v, fromRow), v.items[fromRow + 1], toRow)

addRow(v) ==
    LET curRow == AddRowTarget(v.currentIndex.row, rowCount(v.items))
        curCol == AddColumnTarget(v.currentIndex.column)
    IN  ViewSetCurrentCell(ViewInsertItem(v, createItem(v.items), curRow),
                           curRow, curCol)

removeRow(v) ==
    LET curRow == v.currentIndex.row
        popped == ViewPopItemAtRow(v, curRow)
    IN  IF curRow < 0
        THEN v
        ELSE ViewSetCurrentCell(popped,
                                RemoveRowCursor(curRow, rowCount(popped.items)),
                                v.currentIndex.column)

moveRow(v, number) ==
    LET curRow == v.currentIndex.row
        moved  == ViewMoveItem(v, curRow, curRow + number)
    IN  IF curRow < 0
        THEN v
        ELSE ViewSetCurrentCell(moved,
                                MoveRowCursor(curRow, number, rowCount(moved.items)),
                                v.currentIndex.column)

Started(op, number) ==
    [op |-> op, number |-> number, row |-> currentIndex.row,
     column |-> currentIndex.column, items |-> items]

Shown(v) ==
    /\ items' = v.items
    /\ currentIndex' = v.currentIndex
    /\ buttons' = v.buttons

AddRow ==
    /\ rowCount(items) < MaxRows
    /\ Shown(addRow(View))
    /\ lastEdit' = Started("addRow", 0)
    /\ UNCHANGED exceptTable

RemoveRow ==
    /\ Shown(removeRow(View))
    /\ lastEdit' = Started("removeRow", 0)
    /\ UNCHANGED exceptTable

\* The Move Up button calls moveRow(-1), the Move Down button moveRow(+1).
MoveRow ==
    \E number \in {-1, 1} :
        /\ Shown(moveRow(View, number))
        /\ lastEdit' = Started("moveRow", number)
        /\ UNCHANGED exceptTable

\* The user clicks a cell of the table: it becomes the current index.
SelectCell ==
    \E row \in 0..(rowCount(items) - 1), col \in 0..(NumColumns - 1) :
        /\ Shown(SelectIndex(View, [row |-> row, column |-> col]))
        /\ lastEdit' = Started("select", 0)
        /\ UNCHANGED exceptTable

NoEdit == [op |-> "init", number |-> 0, row |-> INVALID_ROW,
           column |-> INVALID_ROW, items |-> <<>>]

\* TableEditWidget.__init__ ends with updateWidgets(). The table model the
\* widget is constructed on holds any number of rows; no cell is current.
InitTableWidget ==
    /\ items \in {[i \in 1..n |-> i] : n \in 0..MaxRows}
    /\ currentIndex = InvalidIndex
    /\ buttons = updateWidgets(INVALID_ROW, rowCount(items))
    /\ lastEdit = NoEdit

NextTable ==
    \/ AddRow
    \/ RemoveRow
    \/ MoveRow
    \/ SelectCell


\* =========================================================================
\* The netCDF repo tree items (libargos/repo/rtiplugins/ncdf.py). A node of
\* the tree is identified by its path: the file node is <<>>, the i-th child
\* of node p is p \o <<i>>.
\* =========================================================================

\* What a node holds of the netCDF library: nothing, the root Dataset or a
\* group of it, a variable, a dimension, or a field of a variable.
NoDataset == [what |-> "None", group |-> <<>>, name |-> 0]
RootDataset == [what |-> "group", group |-> <<>>, name |-> 0]

\* The content of the file: the root group holds a dimension, NumGroups
\* groups, a variable of a plain type and one of a compound type; every
\* other group holds a variable of a compound type. A compound type has
\* NumFields fields.
GroupDimensions(ncGroup) ==
    IF ncGroup.group = <<>>
    THEN <<[what |-> "dimension", group |-> ncGroup.group, name |-> 1]>>
    ELSE <<>>

GroupGroups(ncGroup) ==
    IF ncGroup.group = <<>>
    THEN [k \in 1..NumGroups |-> [what |-> "group", group |-> <<k>>, name |-> k]]
    ELSE <<>>

PlainVariable == 1
CompoundVariable == 2

GroupVariables(ncGroup) ==
    IF ncGroup.group = <<>>
    THEN <<[what |-> "variable", group |-> ncGroup.group, name |-> PlainVariable],
           [what |-> "variable", group |-> ncGroup.group, name |-> CompoundVariable]>>
    ELSE <<[what |-> "variable", group |-> ncGroup.group, name |-> CompoundVariable]>>

\* ncVar.dtype.names
DtypeNames(ncVar) ==
    IF ncVar.name = CompoundVariable THEN [k \in 1..NumFields |-> k] ELSE <<>>

\* BaseRti.__init__ with what the constructors of ncdf.py add: the library
\* object, and no children fetched. fetchCount counts the enumerations of
\* the children of the node.
NewRti(kind, nc) ==
    [kind |-> kind, nc |-> nc, isOpen |-> FALSE, childrenFetched |-> FALSE,
     fetchCount |-> 0]

NcdfDimensionRti(ncDim) == NewRti("dimension", ncDim)
NcdfFieldRti(ncVar, fieldName) ==
    NewRti("field", [what |-> "field", group |-> ncVar.group, name |-> fieldName])
NcdfVariableRti(ncVar) == NewRti("variable", ncVar)
NcdfGroupRti(ncGroup) == NewRti("group", ncGroup)
NcdfFileRti == [NcdfGroupRti(NoDataset) EXCEPT !.kind = "file"]

\* BaseRti.canFetchChildren
canFetchChildren(node) == ~node.childrenFetched

Raised(message, node) == [error |-> message, childItems |-> <<>>, node |-> node]

Enumerated(node) == [node EXCEPT !.fetchCount = Min(@ + 1, 2)]

\* A fetch that forgets that it has run.
MarkChildrenFetched_Forgets(node) == node

\* self._childrenFetched = True
MarkChildrenFetched(node) == [node EXCEPT !.childrenFetched = TRUE]

\* NcdfVariableRti._fetchAllChildren
VariableFetchAllChildren(node) ==
    IF ~canFetchChildren(node)
    THEN Raised("canFetchChildren must be True", node)
    ELSE LET names == DtypeNames(node.nc)
         IN  [error |-> "",
              childItems |-> [i \in 1..Len(names) |-> NcdfFieldRti(node.nc, names[i])],
              node |-> MarkChildrenFetched(Enumerated(node))]

\* NcdfGroupRti._fetchAllChildren, which NcdfFileRti inherits
GroupFetchAllChildren(node) ==
    IF node.nc = NoDataset
    THEN Raised("dataset undefined (file not opened?)", node)
    ELSE IF ~canFetchChildren(node)
         THEN Raised("canFetchChildren must be True", node)
         ELSE LET ncDims   == GroupDimensions(node.nc)
                  ncGroups == GroupGroups(node.nc)
                  ncVars   == GroupVariables(node.nc)
              IN  [error |-> "",
                   childItems |->
                       [i \in 1..Len(ncDims) |-> NcdfDimensionRti(ncDims[i])]
                       \o [i \in 1..Len(ncGroups) |-> NcdfGroupRti(ncGroups[i])]
                       \o [i \in 1..Len(ncVars) |-> NcdfVariableRti(ncVars[i])],
                   node |-> MarkChildrenFetched(Enumerated(node))]

_fetchAllChildren(node) ==
    IF node.kind = "variable"
    THEN VariableFetchAllChildren(node)
    ELSE GroupFetchAllChildren(node)

\* An _openResources that keeps the Dataset to itself.
_openResources_NoHandle(node) == node

\* NcdfFileRti._openResources; the other nodes have no resources of their own.
_openResources(node) ==
    IF node.kind = "file" THEN [node EXCEPT !.nc = RootDataset] ELSE node

\* A _closeResources that closes the Dataset and keeps the handle.
_closeResources_KeepsHandle(node) == [error |-> "", node |-> node]

\* NcdfFileRti._closeResources: self._ncGroup.close() needs a Dataset.
_closeResources(node) ==
    IF node.kind # "file"
    THEN [error |-> "", node |-> node]
    ELSE IF node.nc = NoDataset
         THEN [error |-> "close of None", node |-> node]
         ELSE [error |-> "", node |-> [node EXCEPT !.nc = NoDataset]]

Tree == [nodes |-> ncNodes, failure |-> ncFailure, ran |-> ""]

\* BaseRti.open: a node that is not open acquires its resources. A file
\* that cannot be read leaves the node as it was.
open(s, path, readable) ==
    LET node == s.nodes[path]
    IN  IF node.isOpen \/ ~readable
        THEN s
        ELSE [s EXCEPT !.nodes[path] = [_openResources(node) EXCEPT !.isOpen = TRUE],
                       !.ran = "_openResources"]

\* BaseRti.close: a node that is open releases its resources.
close(s, path) ==
    LET node   == s.nodes[path]
        closed == _closeResources(node)
    IN  IF ~node.isOpen
        THEN s
        ELSE IF closed.error # ""
             THEN [s EXCEPT !.failure = closed.error, !.ran = "_closeResources"]
             ELSE [s EXCEPT !.nodes[path] = [closed.node EXCEPT !.isOpen = FALSE],
                            !.ran = "_closeResources"]

\* BaseRti.fetchChildren: the children of an open node that can still fetch
\* them are enumerated and put below the node; else nothing happens.
fetchChildren(s, path) ==
    LET node     == s.nodes[path]
        fetched  == _fetchAllChildren(node)
        children == {path \o <<i>> : i \in 1..Len(fetched.childItems)}
    IN  IF ~(node.isOpen /\ canFetchChildren(node))
        THEN s
        ELSE IF fetched.error # ""
             THEN [s EXCEPT !.failure = fetched.error, !.ran = "_fetchAllChildren"]
             ELSE [s EXCEPT !.nodes =
                       [p \in DOMAIN s.nodes \cup children |->
                           IF p = path THEN fetched.node
                           ELSE IF p \in children THEN fetched.childItems[p[Len(p)]]
                           ELSE s.nodes[p]],
                            !.ran = "_fetchAllChildren"]

\* The nodes that can have children.
Containers == {p \in DOMAIN ncNodes : ncNodes[p].kind \in {"file", "group", "variable"}}

Called(op, path, s) ==
    /\ ncNodes' = s.nodes
    /\ ncFailure' = s.failure
    /\ ncLast' = [op |-> op, path |-> path, ran |-> s.ran, nodes |-> ncNodes]
    /\ UNCHANGED exceptNcdf

Open ==
    \E path \in Containers, readable \in BOOLEAN :
        Called("open", path, open(Tree, path, readable))

Close ==
    \E path \in Containers :
        Called("close", path, close(Tree, path))

FetchChildren ==
    \E path \in Containers :
        Called("fetchChildren", path, fetchChildren(Tree, path))

\* A netCDF file was added to the repository: NcdfFileRti.__init__
InitNcdf ==
    /\ ncNodes = (<<>> :> NcdfFileRti)
    /\ ncFailure = ""
    /\ ncLast = [op |-> "init", path |-> <<>>, ran |-> "", nodes |-> (<<>> :> NcdfFileRti)]

NextNcdf ==
    \/ Open
    \/ Close
    \/ FetchChildren


\* =========================================================================
\* NcdfFieldRti (libargos/repo/rtiplugins/ncdf.py): a field of a compound
\* netCDF variable seen as an array. An array is a shape and a function at
\* from the index tuples of that shape (counted from 0) to the elements.
\* =========================================================================
Indices(shape) ==
    {idx \in UNION {[1..Len(shape) -> 0..(shape[k] - 1)] : k \in 1..Len(shape)} :
        \A k \in 1..Len(shape) : idx[k] < shape[k]}

IndicesOf(shape) == IF shape = <<>> THEN {<<>>} ELSE Indices(shape)

\* An index with more entries than the array has dimensions.
IndexError == [shape |-> <<-1>>, at |-> <<>>]

\* The element of the variable at mainIndex: a value of the compound type,
\* which holds for every field an array of the shape of that field. The
\* elements of the model name the place they come from.
Element(ncVar, mainIndex) ==
    [fieldName \in DOMAIN ncVar.fields |->
        [shape |-> ncVar.fields[fieldName],
         at    |-> [subIndex \in IndicesOf(ncVar.fields[fieldName]) |->
                        <<mainIndex, fieldName, subIndex>>]]]

\* ncVar.__getitem__(mainIndex): the entries of mainIndex select along the
\* first dimensions, the other dimensions stay.
NcVarGetItem(ncVar, mainIndex) ==
    LET n    == Len(mainIndex)
        rest == SubSeq(ncVar.shape, n + 1, Len(ncVar.shape))
    IN  IF n > Len(ncVar.shape)
        THEN IndexError
        ELSE [shape |-> rest,
              at    |-> [t \in IndicesOf(rest) |-> Element(ncVar, mainIndex \o t)]]

\* mainArray[fieldName] of an array of compound values: the dimensions of the
\* field come after those of the array.
FieldOf(ncVar, mainArray, fieldName) ==
    LET n     == Len(mainArray.shape)
        shape == mainArray.shape \o ncVar.fields[fieldName]
    IN  IF mainArray = IndexError
        THEN IndexError
        ELSE [shape |-> shape,
              at    |-> [t \in IndicesOf(shape) |->
                            mainArray.at[SubSeq(t, 1, n)][fieldName]
                                .at[SubSeq(t, n + 1, Len(t))]]]

\* fieldArray[(Ellipsis,) + subIndex]: the entries of subIndex select along
\* the last dimensions.
EllipsisGetItem(fieldArray, subIndex) ==
    LET n    == Len(fieldArray.shape) - Len(subIndex)
        rest == SubSeq(fieldArray.shape, 1, n)
    IN  IF fieldArray = IndexError \/ n < 0
        THEN IndexError
        ELSE [shape |-> rest,
              at    |-> [t \in IndicesOf(rest) |-> fieldArray.at[t \o subIndex]]]

\* index[:mainArrayNumDims]
MainIndex(index, mainArrayNumDims) ==
    SubSeq(index, 1, Min(mainArrayNumDims, Len(index)))

\* index[mainArrayNumDims:]
SubIndex(index, mainArrayNumDims) ==
    SubSeq(index, mainArrayNumDims + 1, Len(index))

\* NcdfFieldRti.__getitem__
getitem(fieldNode, index) ==
    LET mainArrayNumDims == Len(fieldNode.ncVar.shape)
        mainIndex  == MainIndex(index, mainArrayNumDims)
        mainArray  == NcVarGetItem(fieldNode.ncVar, mainIndex)
        fieldArray == FieldOf(fieldNode.ncVar, mainArray, fieldNode.nodeName)
        subIndex   == SubIndex(index, mainArrayNumDims)
    IN  EllipsisGetItem(fieldArray, subIndex)

\* A _subArrayShape that takes every field for a regular one.
_subArrayShape_Regular(fieldNode) == <<>>

\* NcdfFieldRti._subArrayShape
_subArrayShape(fieldNode) ==
    IF ~fieldNode.ncVar.compound
    THEN <<>>
    ELSE fieldNode.ncVar.fields[fieldNode.nodeName]

\* NcdfFieldRti.nDims
nDims(fieldNode) == Len(fieldNode.ncVar.shape) + Len(_subArrayShape(fieldNode))

\* NcdfFieldRti.arrayShape
arrayShape(fieldNode) == fieldNode.ncVar.shape \o _subArrayShape(fieldNode)

\* 'SubDim{}'.format(dimNr)
SubDimName(dimNr) == <<"SubDim", dimNr>>

\* NcdfFieldRti.dimensionNames
dimensionNames(fieldNode) ==
    LET nSubDims == Len(_subArrayShape(fieldNode))
    IN  fieldNode.ncVar.dimensions \o [k \in 1..nSubDims |-> SubDimName(k - 1)]

\* The shapes of the model: every dimension of a variable has the length 2,
\* every dimension of a sub-array the length 3.
MainShape(m) == [k \in 1..m |-> 2]
SubShape(s) == [k \in 1..s |-> 3]

\* A compound variable of the main rank m with two fields: the first holds
\* a sub-array of the rank s, the second a sub-array of the other ranks.
CompoundVar(m, s) ==
    [compound   |-> TRUE,
     shape      |-> MainShape(m),
     dimensions |-> [k \in 1..m |-> <<"dim", k>>],
     fields     |-> <<SubShape(s), SubShape(MaxRank - s)>>]

NoResult == [called |-> FALSE, index |-> <<>>, value |-> IndexError]

\* rti[index] with a tuple of integers that fit the shape of the node.
GetItem ==
    \E n \in 0..nDims(fieldRti) :
        \E index \in IndicesOf(SubSeq(arrayShape(fieldRti), 1, n)) :
            /\ fieldResult' = [called |-> TRUE, index |-> index,
                               value |-> getitem(fieldRti, index)]
            /\ UNCHANGED <<fieldRti, exceptField>>

\* NcdfFieldRti.__init__, called for a field name of a compound variable.
InitField ==
    /\ \E m \in 0..MaxRank, s \in 0..MaxRank, nodeName \in 1..2 :
           fieldRti = [ncVar |-> CompoundVar(m, s), nodeName |-> nodeName]
    /\ fieldResult = NoResult

InitFieldIdle ==
    /\ fieldRti = [ncVar |-> CompoundVar(0, 0), nodeName |-> 1]
    /\ fieldResult = NoResult

NextField == GetItem


\* =========================================================================
\* MainWindow.openFiles (libargos/widgets/mainwindow.py). There are two
\* files to choose from; the names in unreadable are those that
\* treeView.loadFile raises an Exception for.
\* =========================================================================
FileNames == {"a.nc", "b.nc"}

FileLists == UNION {[1..n -> FileNames] : n \in 0..MaxFiles}

\* rtiClass is the class the files are opened as, None for autodetect;
\* action is the text of the 'Open As' action that started the run, if one did.
NoRun == [called |-> FALSE, dialog |-> FALSE, fileNames |-> <<>>,
          attempted |-> <<>>, loaded |-> <<>>, warnings |-> <<>>,
          raised |-> FALSE, rtiClass |-> "None", caption |-> <<>>,
          action |-> <<>>]

\* The RTI classes the global registry can hold, in its order.
RtiClasses == <<"NcdfFileRti", "NumpyTextFileRti", "HdfFileRti", "MatFileRti">>

registeredRtis(n) == SubSeq(RtiClasses, 1, n)

\* rtiClass.getLabel()
getLabel(rtiClass) == <<"label of", rtiClass>>

\* "Open {}".format(rtiClass.getLabel())
OpenCaption(rtiClass) == <<"Open", getLabel(rtiClass)>>

\* The loop of __setupMenu over the registered RTI classes: every pass
\* assigns the local variable rtiClass and adds an action with the label of
\* the class; the lambda of the action refers to the variable, not to the
\* value it has in that pass.
RECURSIVE OpenAsLoop(_, _)
OpenAsLoop(regRtis, menu) ==
    IF regRtis = <<>>
    THEN menu
    ELSE OpenAsLoop(Tail(regRtis),
                    [actions  |-> Append(menu.actions, getLabel(Head(regRtis))),
                     rtiClass |-> Head(regRtis)])

\* MainWindow.__setupMenu: the 'Open As' menu.
__setupMenu(regRtis) == OpenAsLoop(regRtis, [actions |-> <<>>, rtiClass |-> "unbound"])

\* An except clause that swallows the exception without a word.
ExceptClause_Silent(run, fileName, debug) == run

\* The except clause of openFiles: DEBUGGING re-raises, else the error is
\* logged and shown in a QMessageBox.warning.
ExceptClause(run, fileName, debug) ==
    IF debug
    THEN [run EXCEPT !.raised = TRUE]
    ELSE [run EXCEPT !.warnings = Append(@, fileName)]

\* for fileName in fileNames: try: self.treeView.loadFile(fileName, ...)
RECURSIVE LoadLoop(_, _, _, _)
LoadLoop(fileNames, run, failing, debug) ==
    IF fileNames = <<>> \/ run.raised
    THEN run
    ELSE LET fileName == Head(fileNames)
             tried    == [run EXCEPT !.attempted = Append(@, fileName)]
         IN  LoadLoop(Tail(fileNames),
                      IF fileName \in failing
                      THEN ExceptClause(tried, fileName, debug)
                      ELSE [tried EXCEPT !.loaded = Append(@, fileName)],
                      failing, debug)

\* openFiles(fileNames): the files are opened directly.
OpenFiles ==
    \E fileNames \in FileLists :
        /\ openRun' = LoadLoop(fileNames,
                               [NoRun EXCEPT !.called = TRUE, !.fileNames = fileNames],
                               unreadable, debugging)
        /\ UNCHANGED <<debugging, unreadable, openAsMenu, exceptOpen>>

\* openFiles(): the user selects the files in a dialog, or cancels it and
\* no file is opened.
OpenFilesFromDialog ==
    \E accepted \in BOOLEAN, selectedFiles \in FileLists :
        LET fileNames == IF accepted THEN selectedFiles ELSE <<>>
        IN  /\ openRun' = LoadLoop(fileNames,
                                   [NoRun EXCEPT !.called = TRUE,
                                                 !.dialog = TRUE,
                                                 !.fileNames = fileNames],
                                   unreadable, debugging)
            /\ UNCHANGED <<debugging, unreadable, openAsMenu, exceptOpen>>

\* The user triggers an action of the 'Open As' menu: its lambda reads the
\* variable rtiClass of __setupMenu and calls openFiles(rtiClass=rtiClass,
\* fileMode=ExistingFiles, caption="Open <label>"), which shows the dialog.
TriggerOpenAs ==
    \E actionNr \in 1..Len(openAsMenu.actions), accepted \in BOOLEAN,
       selectedFiles \in FileLists :
        LET rtiClass  == openAsMenu.rtiClass
            fileNames == IF accepted THEN selectedFiles ELSE <<>>
        IN  /\ openRun' = LoadLoop(fileNames,
                                   [NoRun EXCEPT !.called = TRUE,
                                                 !.dialog = TRUE,
                                                 !.fileNames = fileNames,
                                                 !.rtiClass = rtiClass,
                                                 !.caption = OpenCaption(rtiClass),
                                                 !.action = openAsMenu.actions[actionNr]],
                                   unreadable, debugging)
            /\ UNCHANGED <<debugging, unreadable, openAsMenu, exceptOpen>>

InitOpen ==
    /\ debugging \in BOOLEAN
    /\ unreadable \in SUBSET FileNames
    /\ openRun = NoRun
    /\ \E n \in 0..MaxRtiClasses : openAsMenu = __setupMenu(registeredRtis(n))

InitOpenIdle ==
    /\ debugging = FALSE
    /\ unreadable = {}
    /\ openRun = NoRun
    /\ openAsMenu = __setupMenu(<<>>)

NextOpen ==
    \/ OpenFiles
    \/ OpenFilesFromDialog
    \/ TriggerOpenAs


\* =========================================================================
\* RegistryTab (argos/widgets/pluginsdialog.py) over a plugin registry. The
\* slots of the tab run from the Qt event loop; an event the user has caused
\* waits in pending until the event loop or a processEvents() of a running
\* slot dispatches it.
\* =========================================================================

\* ClassRegItem: the import state is None (not attempted), True or False
\* (failed, with the exception kept); attempts counts the imports.
NewRegItem(importable, descriptionHtml) ==
    [importable |-> importable, successfullyImported |-> "None",
     exception |-> "", attempts |-> 0, descriptionHtml |-> descriptionHtml,
     docString |-> "doc string"]

\* ClassRegItem.triedImport
triedImport(regItem) == regItem.successfullyImported # "None"

\* ClassRegItem.tryImportClass: imports the class and keeps the exception of
\* an import that fails.
tryImportClass(regItem) ==
    [regItem EXCEPT !.successfullyImported = IF regItem.importable THEN "True" ELSE "False",
                    !.exception = IF regItem.importable THEN "" ELSE "ImportError",
                    !.attempts = Min(@ + 1, 2)]

NoText == [color |-> "regular", text |-> ""]

\* The end of currentItemChanged: the text for the state of regItem.
DetailText(regItem) ==
    IF regItem.successfullyImported = "None"
    THEN [color |-> "not imported", text |-> "<plugin not yet imported>"]
    ELSE IF regItem.successfullyImported = "False"
         THEN [color |-> "error", text |-> regItem.exception]
         ELSE IF regItem.descriptionHtml # ""
              THEN [color |-> "regular", text |-> regItem.descriptionHtml]
              ELSE [color |-> "regular", text |-> regItem.docString]

Tab == [regItems |-> regItems, currentRow |-> currentRow, editor |-> editor,
        pending |-> pending]

RECURSIVE processEvents(_, _)
RECURSIVE Dispatch(_, _, _)
RECURSIVE importRegItem(_, _, _)
RECURSIVE ImportLoop(_, _, _)
RECURSIVE currentItemChanged(_, _)

\* QtWidgets.qApp.processEvents(): the waiting events are dispatched.
processEvents(tab, importOnSelect) ==
    IF tab.pending = <<>>
    THEN tab
    ELSE processEvents(Dispatch([tab EXCEPT !.pending = Tail(@)],
                                Head(tab.pending), importOnSelect),
                       importOnSelect)

\* RegistryTab.importRegItem
importRegItem(tab, row, importOnSelect) ==
    LET ready    == processEvents(tab, importOnSelect)
        imported == [ready EXCEPT !.regItems[row] = tryImportClass(@)]
    IN  processEvents(imported, importOnSelect)

\* RegistryTab.tryImportAllPlugins, from the item of the given row on
ImportLoop(tab, row, importOnSelect) ==
    IF row > Len(tab.regItems)
    THEN tab
    ELSE ImportLoop(IF ~triedImport(tab.regItems[row])
                    THEN importRegItem(tab, row, importOnSelect)
                    ELSE tab,
                    row + 1, importOnSelect)

tryImportAllPlugins(tab, importOnSelect) == ImportLoop(tab, 1, importOnSelect)

\* RegistryTab.currentItemChanged; regItem is the item of the row that is
\* current when the slot starts.
currentItemChanged(tab, importOnSelect) ==
    LET cleared == [tab EXCEPT !.editor = NoText]
        row     == tab.currentRow
        done    == IF importOnSelect
                      /\ cleared.regItems[row].successfullyImported = "None"
                   THEN importRegItem(cleared, row, importOnSelect)
                   ELSE cleared
    IN  IF row = 0
        THEN cleared
        ELSE [done EXCEPT !.editor = DetailText(done.regItems[row])]

\* A click on a row makes it the current row, and currentRowChanged is sent
\* when it was not; a click on 'Test Loading All' runs tryImportAllPlugins.
Dispatch(tab, event, importOnSelect) ==
    IF event.type = "loadAll"
    THEN tryImportAllPlugins(tab, importOnSelect)
    ELSE IF event.row = tab.currentRow
         THEN tab
         ELSE currentItemChanged([tab EXCEPT !.currentRow = event.row],
                                 importOnSelect)

\* The user clicks on a row of the table.
ClickRow ==
    \E row \in 1..Len(regItems) :
        /\ Len(pending) < MaxPending
        /\ pending' = Append(pending, [type |-> "select", row |-> row])
        /\ UNCHANGED <<regItems, currentRow, editor, importOnSelectFlag,
                       tabLast, exceptPlugins>>

\* The user clicks on 'Test Loading All'.
ClickLoadAll ==
    /\ Len(pending) < MaxPending
    /\ pending' = Append(pending, [type |-> "loadAll", row |-> 0])
    /\ UNCHANGED <<regItems, currentRow, editor, importOnSelectFlag, tabLast,
                   exceptPlugins>>

\* The event loop dispatches the event that has waited longest.
EventLoop ==
    /\ pending # <<>>
    /\ LET tab == Dispatch([Tab EXCEPT !.pending = Tail(@)], Head(pending),
                           importOnSelectFlag)
       IN  /\ regItems' = tab.regItems
           /\ currentRow' = tab.currentRow
           /\ editor' = tab.editor
           /\ pending' = tab.pending
           /\ tabLast' = [event |-> Head(pending), waiting |-> Tail(pending),
                          regItems |-> regItems, currentRow |-> currentRow]
    /\ UNCHANGED <<importOnSelectFlag, exceptPlugins>>

NoEvent == [event |-> [type |-> "none", row |-> 0], waiting |-> <<>>,
            regItems |-> <<>>, currentRow |-> 0]

\* A registry of plugins that have not been imported; the first one comes
\* with a description.
Registry(importable) ==
    [i \in 1..Len(importable) |->
        NewRegItem(importable[i], IF i = 1 THEN "<b>description</b>" ELSE "")]

InitPlugins ==
    /\ \E importable \in [1..NumPlugins -> BOOLEAN] : regItems = Registry(importable)
    /\ importOnSelectFlag \in BOOLEAN
    /\ currentRow = 0
    /\ editor = NoText
    /\ pending = <<>>
    /\ tabLast = NoEvent

InitPluginsIdle ==
    /\ regItems = <<>>
    /\ importOnSelectFlag = TRUE
    /\ currentRow = 0
    /\ editor = NoText
    /\ pending = <<>>
    /\ tabLast = NoEvent

NextPlugins ==
    \/ ClickRow
    \/ ClickLoadAll
    \/ EventLoop


\* =========================================================================
\* MainWindow (libargos/widgets/mainwindow.py) and the QSettings store. The
\* store outlives the process; MainWindow._nInstances starts at 0 in every
\* process.
\* =========================================================================

\* A group name that leaves the instance number out.
_settingsGroupName_Shared(instanceNr, prefix) == <<"window", 0, prefix>>

\* "window{:02d}-{}".format(self._InstanceNr, prefix)
_settingsGroupName(instanceNr, prefix) == <<"window", instanceNr, prefix>>

\* The key of a value inside a group of the store.
SettingsKey(group, name) == [group |-> group, name |-> name]

\* QtCore.QPoint(20 * self._InstanceNr, 20 * self._InstanceNr)
DefaultPos(instanceNr) == <<20 * instanceNr, 20 * instanceNr>>

\* QtCore.QSize(1024, 700)
DefaultSize == <<1024, 700>>

\* The state of the main splitter of a window nobody has touched.
DefaultSplitter == "splitter as built"

\* What the user can make of a window: as built, or one of two arrangements.
Arrangements ==
    {[pos |-> <<3, 4>>, size |-> <<800, 600>>, splitter |-> "tree large"],
     [pos |-> <<7, 1>>, size |-> <<640, 480>>, splitter |-> "tree small"]}

\* QSettings.value(key, defaultValue)
SettingsValue(store, key, defaultValue) ==
    IF key \in DOMAIN store THEN store[key] ELSE defaultValue

\* QSettings.setValue(key, value)
SetValue_(store, key, value) ==
    [k \in DOMAIN store \cup {key} |-> IF k = key THEN value ELSE store[k]]

\* A test of the reset parameter that never resets.
IsReset_Never(reset) == FALSE

\* if reset:
IsReset(reset) == reset

\* MainWindow._readViewSettings: the geometry the window gets and the keys of
\* the store that were read for it.
_readViewSettings(store, instanceNr, reset) ==
    LET group    == _settingsGroupName(instanceNr, "view")
        posKey   == SettingsKey(group, "main_window/pos")
        sizeKey  == SettingsKey(group, "main_window/size")
        stateKey == SettingsKey(group, "main_splitter/state")
        splitterState == SettingsValue(store, stateKey, "")
    IN  IF IsReset(reset)
        THEN [pos |-> DefaultPos(instanceNr), size |-> DefaultSize,
              splitter |-> DefaultSplitter, read |-> {}]
        ELSE [pos      |-> SettingsValue(store, posKey, DefaultPos(instanceNr)),
              size     |-> SettingsValue(store, sizeKey, DefaultSize),
              splitter |-> IF splitterState # "" THEN splitterState
                           ELSE DefaultSplitter,
              read     |-> {posKey, sizeKey, stateKey}]

\* MainWindow._writeViewSettings
_writeViewSettings(store, instanceNr, window) ==
    LET group == _settingsGroupName(instanceNr, "view")
    IN  SetValue_(SetValue_(SetValue_(store,
            SettingsKey(group, "main_splitter/state"), window.splitter),
            SettingsKey(group, "main_window/pos"), window.pos),
            SettingsKey(group, "main_window/size"), window.size)

Geometry(window) ==
    [pos |-> window.pos, size |-> window.size, splitter |-> window.splitter]

\* MainWindow.__init__(reset)
NewMainWindow ==
    \E reset \in BOOLEAN :
        LET instanceNr == nInstances + 1
            view       == _readViewSettings(settings, instanceNr, reset)
        IN  /\ nInstances < MaxWindows
            /\ nInstances' = instanceNr
            /\ windows' = Append(windows, Geometry(view) @@ [closed |-> FALSE])
            /\ winLast' = [op |-> "init", instanceNr |-> instanceNr,
                           reset |-> reset, read |-> view.read,
                           settings |-> settings]
            /\ UNCHANGED <<settings, closedAs, exceptWindow>>

\* The user moves and resizes an open window and drags its splitter.
ArrangeWindow ==
    \E instanceNr \in 1..Len(windows), arrangement \in Arrangements :
        /\ ~windows[instanceNr].closed
        /\ windows' = [windows EXCEPT ![instanceNr] = arrangement @@ [closed |-> FALSE]]
        /\ winLast' = [op |-> "arrange", instanceNr |-> instanceNr,
                       reset |-> FALSE, read |-> {}, settings |-> settings]
        /\ UNCHANGED <<settings, nInstances, closedAs, exceptWindow>>

\* MainWindow.closeEvent: the settings are written; self.close() inside the
\* close event sends no second event; the event is accepted and the window
\* is closed.
CloseEvent ==
    \E instanceNr \in 1..Len(windows) :
        /\ ~windows[instanceNr].closed
        /\ settings' = _writeViewSettings(settings, instanceNr, windows[instanceNr])
        /\ windows' = [windows EXCEPT ![instanceNr].closed = TRUE]
        /\ closedAs' = [n \in DOMAIN closedAs \cup {instanceNr} |->
                           IF n = instanceNr THEN Geometry(windows[instanceNr])
                           ELSE closedAs[n]]
        /\ winLast' = [op |-> "closeEvent", instanceNr |-> instanceNr,
                       reset |-> FALSE, read |-> {}, settings |-> settings]
        /\ UNCHANGED <<nInstances, exceptWindow>>

\* The last window is closed, the application quits and is started again.
Restart ==
    /\ nInstances > 0
    /\ \A instanceNr \in 1..Len(windows) : windows[instanceNr].closed
    /\ nInstances' = 0
    /\ windows' = <<>>
    /\ winLast' = [op |-> "restart", instanceNr |-> 0, reset |-> FALSE,
                   read |-> {}, settings |-> settings]
    /\ UNCHANGED <<settings, closedAs, exceptWindow>>

NoWindowYet == [op |-> "start", instanceNr |-> 0, reset |-> FALSE, read |-> {},
                settings |-> <<>>]

\* The application starts on a store that is empty or holds a position for
\* the first window and nothing else.
InitWindow ==
    /\ settings \in {<<>>,
                     (SettingsKey(_settingsGroupName(1, "view"), "main_window/pos")
                         :> <<50, 60>>)}
    /\ nInstances = 0
    /\ windows = <<>>
    /\ closedAs = <<>>
    /\ winLast = NoWindowYet

InitWindowIdle ==
    /\ settings = <<>>
    /\ nInstances = 0
    /\ windows = <<>>
    /\ closedAs = <<>>
    /\ winLast = NoWindowYet

NextWindow ==
    \/ NewMainWindow
    \/ ArrangeWindow
    \/ CloseEvent
    \/ Restart


\* =========================================================================
\* PluginsDialog (argos/widgets/pluginsdialog.py). The ClassRegItems are
\* objects: objects holds them by identity, a registry is the sequence of the
\* identities of its items. The dialog has one RegistryTab, over its copy.
\* =========================================================================

\* The items of a registry, in its order.
ItemsOf(objs, registry) == [i \in 1..Len(registry) |-> objs[registry[i]]]

\* The objects that registry refers to, and nothing else.
Collect(objs, registry) ==
    [objects  |-> ItemsOf(objs, registry),
     registry |-> [i \in 1..Len(registry) |-> i]]

\* copy.copy(registry): a new list of the same items.
deepcopy_Shallow(objs, registry) == [objects |-> objs, registry |-> registry]

\* copy.deepcopy(registry): a new list of new items with the same contents.
deepcopy(objs, registry) ==
    [objects  |-> objs \o ItemsOf(objs, registry),
     registry |-> [i \in 1..Len(registry) |-> Len(objs) + i]]

\* Registry.clear()
ClearRegistry(registry) == <<>>

\* Registry.registerItem(item)
registerItem(registry, item) == Append(registry, item)

RECURSIVE RegisterItems(_, _)
\* for item in self._registry.items: self._orgRegistry.registerItem(item)
RegisterItems(registry, its) ==
    IF its = <<>> THEN registry
    ELSE RegisterItems(registerItem(registry, Head(its)), Tail(its))

\* PluginsDialog.accept: what the original registry holds afterwards.
accept(orgReg, reg) == RegisterItems(ClearRegistry(orgReg), reg)

\* The tab of the dialog, with the items of the copy as they are now.
DialogTab == [regItems |-> ItemsOf(objects, dlgRegistry),
              currentRow |-> dlgTab.currentRow, editor |-> dlgTab.editor,
              pending |-> <<>>]

\* The items of the tab are the objects of its registry: what a slot did to
\* them is seen through every reference to them.
StoreItems(objs, registry, its) ==
    [id \in 1..Len(objs) |->
        IF \E i \in 1..Len(registry) : registry[i] = id
        THEN its[CHOOSE i \in 1..Len(registry) : registry[i] = id]
        ELSE objs[id]]

NoDialogTab == [currentRow |-> 0, editor |-> NoText]

\* PluginsDialog.__init__(label, registry); the copy of an earlier dialog is
\* not referred to any more.
NewPluginsDialog ==
    LET kept == Collect(objects, orgRegistry)
        copy == deepcopy(kept.objects, kept.registry)
    IN  /\ dialogState # "open"
        /\ objects' = copy.objects
        /\ orgRegistry' = kept.registry
        /\ dlgRegistry' = copy.registry
        /\ dlgTab' = NoDialogTab
        /\ dialogState' = "open"
        /\ dlgLast' = [op |-> "init", orgRegistry |-> kept.registry,
                       orgItems |-> kept.objects]
        /\ UNCHANGED exceptDialog

\* PluginsDialog.tryImportAllPlugins: tryImportAllPlugins of every tab.
DialogTryImportAllPlugins ==
    LET tab == tryImportAllPlugins(DialogTab, TRUE)
    IN  /\ dialogState = "open"
        /\ objects' = StoreItems(objects, dlgRegistry, tab.regItems)
        /\ dlgTab' = [currentRow |-> tab.currentRow, editor |-> tab.editor]
        /\ dlgLast' = [dlgLast EXCEPT !.op = "tryImportAllPlugins"]
        /\ UNCHANGED <<orgRegistry, dlgRegistry, dialogState, exceptDialog>>

\* The user clicks on a row of the tab, which imports on selection.
DialogSelectRow ==
    \E row \in 1..Len(dlgRegistry) :
        LET tab == Dispatch(DialogTab, [type |-> "select", row |-> row], TRUE)
        IN  /\ dialogState = "open"
            /\ objects' = StoreItems(objects, dlgRegistry, tab.regItems)
            /\ dlgTab' = [currentRow |-> tab.currentRow, editor |-> tab.editor]
            /\ dlgLast' = [dlgLast EXCEPT !.op = "select"]
            /\ UNCHANGED <<orgRegistry, dlgRegistry, dialogState, exceptDialog>>

\* The Save button: PluginsDialog.accept
Accept ==
    /\ dialogState = "open"
    /\ orgRegistry' = accept(orgRegistry, dlgRegistry)
    /\ dialogState' = "accepted"
    /\ dlgLast' = [dlgLast EXCEPT !.op = "accept"]
    /\ UNCHANGED <<objects, dlgRegistry, dlgTab, exceptDialog>>

\* The Cancel button: QDialog.reject
Reject ==
    /\ dialogState = "open"
    /\ dialogState' = "rejected"
    /\ dlgLast' = [dlgLast EXCEPT !.op = "reject"]
    /\ UNCHANGED <<objects, orgRegistry, dlgRegistry, dlgTab, exceptDialog>>

\* The registry of the application: every plugin importable or not, and
\* imported already or not.
InitDialog ==
    /\ \E importable \in [1..NumPlugins -> BOOLEAN], tried \in SUBSET (1..NumPlugins) :
          objects = [i \in 1..NumPlugins |->
                        IF i \in tried
                        THEN tryImportClass(Registry(importable)[i])
                        ELSE Registry(importable)[i]]
    /\ orgRegistry = [i \in 1..NumPlugins |-> i]
    /\ dlgRegistry = <<>>
    /\ dlgTab = NoDialogTab
    /\ dialogState = "none"
    /\ dlgLast = [op |-> "none", orgRegistry |-> <<>>, orgItems |-> <<>>]

InitDialogIdle ==
    /\ objects = <<>>
    /\ orgRegistry = <<>>
    /\ dlgRegistry = <<>>
    /\ dlgTab = NoDialogTab
    /\ dialogState = "none"
    /\ dlgLast = [op |-> "none", orgRegistry |-> <<>>, orgItems |-> <<>>]

NextDialog ==
    \/ NewPluginsDialog
    \/ DialogTryImportAllPlugins
    \/ DialogSelectRow
    \/ Accept
    \/ Reject

\* =========================================================================
\* Specifications: one per component, the other components at rest.
\* =========================================================================
Init == InitCollector /\ InitTableIdle /\ InitNcdf /\ InitFieldIdle
        /\ InitOpenIdle /\ InitPluginsIdle
        /\ InitWindowIdle /\ InitDialogIdle

Next ==
    \/ SetRti
    \/ ComboBoxActivated
    \/ SpinboxValueChanged
    \/ ClearAndSetComboBoxes

Spec == Init /\ [][Next]_vars

\* The Collector with a client that blocks and unblocks its children.
NextBlocking ==
    \/ SetRti
    \/ ComboBoxActivated
    \/ SpinboxValueChanged
    \/ ClearAndSetComboBoxes
    \/ BlockChildrenSignals

SpecBlocking == Init /\ [][NextBlocking]_vars

InitTable == InitCollector /\ InitTableWidget /\ InitNcdf /\ InitFieldIdle
        /\ InitOpenIdle /\ InitPluginsIdle
        /\ InitWindowIdle /\ InitDialogIdle

SpecTable == InitTable /\ [][NextTable]_vars

SpecNcdf == Init /\ [][NextNcdf]_vars

InitFieldNode == InitCollector /\ InitTableIdle /\ InitNcdf /\ InitField
                 /\ InitOpenIdle /\ InitPluginsIdle
        /\ InitWindowIdle /\ InitDialogIdle

SpecField == InitFieldNode /\ [][NextField]_vars

InitOpenFiles == InitCollector /\ InitTableIdle /\ InitNcdf /\ InitFieldIdle
                 /\ InitOpen /\ InitPluginsIdle
        /\ InitWindowIdle /\ InitDialogIdle

SpecOpen == InitOpenFiles /\ [][NextOpen]_vars

InitRegistryTab == InitCollector /\ InitTableIdle /\ InitNcdf /\ InitFieldIdle
                   /\ InitOpenIdle /\ InitPlugins
        /\ InitWindowIdle /\ InitDialogIdle

SpecPlugins == InitRegistryTab /\ [][NextPlugins]_vars

InitMainWindow == InitCollector /\ InitTableIdle /\ InitNcdf /\ InitFieldIdle
                  /\ InitOpenIdle /\ InitPluginsIdle /\ InitWindow /\ InitDialogIdle

SpecWindow == InitMainWindow /\ [][NextWindow]_vars

InitPluginsDialog == InitCollector /\ InitTableIdle /\ InitNcdf /\ InitFieldIdle
                     /\ InitOpenIdle /\ InitPluginsIdle /\ InitWindowIdle
                     /\ InitDialog

SpecDialog == InitPluginsDialog /\ [][NextDialog]_vars

\* =========================================================================
\* Properties of the Collector
\* =========================================================================
AxisDims == Dims(comboBoxes)
NDims == IF rti.hasArray THEN Len(rti.shape) ELSE 0
IsRealDim(d) == d >= 0 /\ d < NDims
OwnedDims == {AxisDims[i] : i \in 1..Len(AxisDims)} \cap (0..(NDims - 1))
SpinDimSet == {spinBoxes[i].dimNr : i \in 1..Len(spinBoxes)}
HereNow == [comboBoxes |-> comboBoxes, spinBoxes |-> spinBoxes,
            signalsBlocked |-> signalsBlocked]

\* C1: no two axis combo boxes hold the same real dimension index; two combo
\* boxes with the same selection both hold the fake dimension (or are empty).
C1_DistinctRealDims ==
    \A a, b \in 1..Len(comboBoxes) :
        (a # b /\ AxisDims[a] = AxisDims[b]) =>
            /\ ~IsRealDim(AxisDims[a])
            /\ Len(comboBoxes[a].items) > 0 => AxisDims[a] = FAKE_DIM_IDX

\* An axis change took a dimension away from another axis, and a third axis
\* shares the fake dimension with it.
C1_Witness ==
    /\ lastOp.op = "comboBoxActivated"
    /\ \E a, b, c \in 1..Len(comboBoxes) :
          /\ a # b /\ b # c /\ a # c
          /\ IsRealDim(AxisDims[a])
          /\ lastOp.before.dims[b] = AxisDims[a]
          /\ AxisDims[b] = FAKE_DIM_IDX
          /\ AxisDims[c] = FAKE_DIM_IDX

\* C2 as claimed: after setRti on an array of N >= 1 dimensions the combo box k
\* (counted from 0) holds the real dimension max(0, N-1-k), for every k.
C2_AsClaimed ==
    (lastOp.op = "setRti" /\ rti.hasArray) =>
        \A i \in 1..Len(comboBoxes) : AxisDims[i] = Max(0, NDims - 1 - (i - 1))

\* C2 amended: after setRti on an array of N >= 1 dimensions the combo box k
\* holds the real dimension N-1-k when k < N, and the fake dimension when k >= N.
C2_DefaultSelection ==
    (lastOp.op = "setRti" /\ rti.hasArray) =>
        \A i \in 1..Len(comboBoxes) :
            AxisDims[i] = IF i - 1 < NDims THEN NDims - 1 - (i - 1) ELSE FAKE_DIM_IDX

\* setRti on an array with fewer dimensions than there are combo boxes.
C2_Witness ==
    /\ lastOp.op = "setRti" /\ rti.hasArray
    /\ Len(comboBoxes) > NDims
    /\ AxisDims[1] = NDims - 1
    /\ AxisDims[Len(comboBoxes)] = FAKE_DIM_IDX

\* The dimension the user picked in the last axis change.
PickedDim == IF lastOp.index = 0 THEN FAKE_DIM_IDX ELSE lastOp.index - 1

\* C3: when the user sets axis A to a real dimension d that another axis B
\* holds, then afterwards A holds d, every other axis that held d holds the fake
\* dimension and every axis that did not hold d has the selection it had.
C3_ConflictReset ==
    (/\ lastOp.op = "comboBoxActivated"
     /\ PickedDim # FAKE_DIM_IDX
     /\ \E b \in 1..Len(comboBoxes) :
           b # lastOp.comboBoxNr /\ lastOp.before.dims[b] = PickedDim)
    => /\ AxisDims[lastOp.comboBoxNr] = PickedDim
       /\ \A b \in 1..Len(comboBoxes) :
             b # lastOp.comboBoxNr =>
                IF lastOp.before.dims[b] = PickedDim
                THEN AxisDims[b] = FAKE_DIM_IDX
                ELSE AxisDims[b] = lastOp.before.dims[b]

\* Axis A took the dimension of axis B while a third axis keeps a real one.
C3_Witness ==
    /\ lastOp.op = "comboBoxActivated"
    /\ PickedDim # FAKE_DIM_IDX
    /\ \E b, c \in 1..Len(comboBoxes) :
          /\ b # lastOp.comboBoxNr /\ c # lastOp.comboBoxNr /\ b # c
          /\ lastOp.before.dims[b] = PickedDim
          /\ AxisDims[b] = FAKE_DIM_IDX
          /\ IsRealDim(AxisDims[c])
          /\ AxisDims[c] = lastOp.before.dims[c]
    /\ lastOp.before.dims[lastOp.comboBoxNr] # PickedDim

\* C4: in every reachable state the dimensions with a spin box are the
\* dimensions 0..N-1 of the current array that no axis combo box has selected.
C4_SpinBoxesAreUnmappedDims == SpinDimSet = (0..(NDims - 1)) \ OwnedDims

\* C5: a spin box made by _createSpinBoxes for a dimension of size s has
\* minimum 0 and maximum s-1, its value stays within them and is s \div 2 right
\* after it was made; the spin boxes are in ascending order of dimension.
C5_SpinBoxRange ==
    rti.hasArray =>
        /\ \A i \in 1..Len(spinBoxes) :
              LET size == rti.shape[spinBoxes[i].dimNr + 1]
              IN  /\ spinBoxes[i].minimum = 0
                  /\ spinBoxes[i].maximum = size - 1
                  /\ spinBoxes[i].value >= 0 /\ spinBoxes[i].value <= size - 1
                  /\ lastOp.op \in {"setRti", "comboBoxActivated"} =>
                        spinBoxes[i].value = size \div 2
        /\ \A i, j \in 1..Len(spinBoxes) :
              i < j => spinBoxes[i].dimNr < spinBoxes[j].dimNr

\* Two spin boxes were made, the second for a dimension of odd size.
C5_Witness ==
    /\ lastOp.op \in {"setRti", "comboBoxActivated"}
    /\ rti = RtiWithArray(OddShape)
    /\ Len(spinBoxes) = 2
    /\ spinBoxes[2].dimNr = 1 /\ spinBoxes[2].maximum = 2 /\ spinBoxes[2].value = 1

\* C6: one axis change emits contentsChanged exactly once, and the listeners see
\* the Collector as the handler leaves it: conflicting axes reset, spin boxes
\* rebuilt, and the blocking state of the Collector and its children restored.
C6_SingleEmissionAfterCascade ==
    lastOp.op = "comboBoxActivated" =>
        /\ Len(emissions) = 1
        /\ emissions[1] = HereNow
        /\ emissions[1].signalsBlocked = lastOp.before.signalsBlocked
        /\ \A i \in 1..Len(emissions[1].comboBoxes) :
              ~emissions[1].comboBoxes[i].signalsBlocked
        /\ \A i \in 1..Len(emissions[1].spinBoxes) :
              ~emissions[1].spinBoxes[i].signalsBlocked
        /\ {emissions[1].spinBoxes[i].dimNr : i \in 1..Len(emissions[1].spinBoxes)}
              = (0..(NDims - 1)) \ OwnedDims

\* An axis change that reset another axis and made a spin box whose value
\* is not the one a new spin box has.
C6_Witness ==
    /\ lastOp.op = "comboBoxActivated"
    /\ Len(emissions) = 1
    /\ \E b \in 1..Len(comboBoxes) :
          /\ b # lastOp.comboBoxNr
          /\ IsRealDim(lastOp.before.dims[b])
          /\ AxisDims[b] = FAKE_DIM_IDX
    /\ \E i \in 1..Len(spinBoxes) : spinBoxes[i].value > 0

C8_Example ==
    (/\ lastOp.op = "setRti"
     /\ rti = RtiWithArray(ExampleShape)
     /\ comboLabels = <<"X-Axis", "Y-Axis">>)
    => /\ AxisDims = <<2, 1>>
       /\ Len(spinBoxes) = 1
       /\ spinBoxes[1].dimNr = 0
       /\ spinBoxes[1].minimum = 0
       /\ spinBoxes[1].maximum = 9
       /\ spinBoxes[1].value = 5

C8_Witness ==
    /\ lastOp.op = "setRti"
    /\ rti = RtiWithArray(ExampleShape)
    /\ comboLabels = <<"X-Axis", "Y-Axis">>
    /\ Len(comboBoxes) = 2
    /\ Len(spinBoxes) = 1

\* C22: setRti emits contentsChanged exactly once, and the listeners see the
\* combo boxes repopulated for the new item and the spin boxes rebuilt;
\* making a spin box emits nothing, its slot being connected after its first
\* value was set.
C22_SetRtiEmitsOnce ==
    lastOp.op = "setRti" =>
        /\ Len(emissions) = 1
        /\ emissions[1].comboBoxes = comboBoxes
        /\ emissions[1].spinBoxes = spinBoxes
        /\ \A i \in 1..Len(comboBoxes) :
              comboBoxes[i].items =
                  IF rti.hasArray
                  THEN <<FAKE_DIM_IDX>> \o [d \in 1..NDims |-> d - 1]
                  ELSE <<>>
        /\ SpinDimSet = (0..(NDims - 1)) \ OwnedDims
        /\ \A i \in 1..Len(spinBoxes) :
              spinBoxes[i].connected /\ spinBoxes[i].inTree

\* setRti made a spin box whose first value is not the value a new QSpinBox
\* has, and emitted once.
C22_Witness ==
    /\ lastOp.op = "setRti"
    /\ Len(emissions) = 1
    /\ \E i \in 1..Len(spinBoxes) :
          spinBoxes[i].value > 0 /\ spinBoxes[i].connected

BlockingOf(boxes) == {boxes[i].signalsBlocked : i \in 1..Len(boxes)}

\* C23: blockChildrenSignals returns the blocking state the Collector had
\* and gives the new one to every child; after _comboBoxActivated the
\* Collector has the blocking state it had before, and so has every combo
\* box and every spin box there is, the rebuilt ones too; none is blocked
\* when the Collector was not blocked before.
C23_BlockingRestored ==
    /\ lastOp.op = "blockChildrenSignals" =>
          /\ lastOp.index = lastOp.before.signalsBlocked
          /\ BlockingOf(comboBoxes) \cup BlockingOf(spinBoxes) \subseteq {signalsBlocked}
    /\ lastOp.op = "comboBoxActivated" =>
          /\ signalsBlocked = lastOp.before.signalsBlocked
          /\ BlockingOf(comboBoxes) \cup BlockingOf(spinBoxes)
                \subseteq {lastOp.before.signalsBlocked}

\* An axis change of an unblocked Collector rebuilt a spin box.
C23_Witness ==
    /\ lastOp.op = "comboBoxActivated"
    /\ ~lastOp.before.signalsBlocked
    /\ Len(spinBoxes) > 0
    /\ lastOp.before.spinDims # SpinDims(spinBoxes)
    /\ BlockingOf(comboBoxes) \cup BlockingOf(spinBoxes) = {FALSE}

\* An axis change of a blocked Collector, started on a combo box made after
\* the blocking, rebuilt a spin box.
C23_WitnessBlocked ==
    /\ lastOp.op = "comboBoxActivated"
    /\ lastOp.before.signalsBlocked
    /\ Len(spinBoxes) > 0
    /\ BlockingOf(comboBoxes) \cup BlockingOf(spinBoxes) = {TRUE}

\* C27: the assertion of _createSpinBoxes that the list of spin boxes is
\* empty never fails, in any sequence of setRti, axis changes, spin box
\* changes and clearAndSetComboBoxes.
C27_AssertionHolds == ~assertionFailed

\* setRti went through _createSpinBoxes on a Collector that had kept the
\* spin boxes of the combo boxes clearAndSetComboBoxes took away.
C27_Witness ==
    /\ lastOp.op = "setRti"
    /\ Len(lastOp.before.spinDims) > 0
    /\ \A i \in 1..Len(lastOp.before.dims) : lastOp.before.dims[i] = NO_ITEM_DATA
    /\ Len(spinBoxes) > 0
    /\ ~assertionFailed

\* C28: when the user sets an axis to the fake dimension, every other axis
\* keeps its selection, also when another axis holds the fake dimension
\* already; the dimension the axis held is selected by no axis and has a
\* spin box at the middle of its range.
C28_SentinelLeavesOthers ==
    (lastOp.op = "comboBoxActivated" /\ PickedDim = FAKE_DIM_IDX) =>
        LET held == lastOp.before.dims[lastOp.comboBoxNr]
        IN  /\ AxisDims[lastOp.comboBoxNr] = FAKE_DIM_IDX
            /\ \A b \in 1..Len(comboBoxes) :
                  b # lastOp.comboBoxNr => AxisDims[b] = lastOp.before.dims[b]
            /\ IsRealDim(held) =>
                  /\ held \notin OwnedDims
                  /\ \E i \in 1..Len(spinBoxes) :
                        /\ spinBoxes[i].dimNr = held
                        /\ spinBoxes[i].value = rti.shape[held + 1] \div 2

\* The user set an axis that held a real dimension to the fake dimension
\* while a second axis held the fake dimension and a third a real one.
C28_Witness ==
    /\ lastOp.op = "comboBoxActivated"
    /\ PickedDim = FAKE_DIM_IDX
    /\ IsRealDim(lastOp.before.dims[lastOp.comboBoxNr])
    /\ \E b, c \in 1..Len(comboBoxes) :
          /\ b # lastOp.comboBoxNr /\ c # lastOp.comboBoxNr /\ b # c
          /\ lastOp.before.dims[b] = FAKE_DIM_IDX
          /\ AxisDims[b] = FAKE_DIM_IDX
          /\ IsRealDim(AxisDims[c])
    /\ \E i \in 1..Len(spinBoxes) :
          /\ spinBoxes[i].dimNr = lastOp.before.dims[lastOp.comboBoxNr]
          /\ spinBoxes[i].value > 0

\* =========================================================================
\* Properties of the TableEditWidget
\* =========================================================================
\* C9: addRow inserts exactly one new item, at the end when no row is selected
\* and at the selected row otherwise; the other items keep their order and the
\* cursor is on the row of the new item.
C9_AddRow ==
    lastEdit.op = "addRow" =>
        LET row == IF lastEdit.row < 0 THEN Len(lastEdit.items) ELSE lastEdit.row
        IN  /\ Len(items) = Len(lastEdit.items) + 1
            /\ items[row + 1] \notin ItemSet(lastEdit.items)
            /\ \A i \in 1..Len(lastEdit.items) :
                  lastEdit.items[i] = items[IF i <= row THEN i ELSE i + 1]
            /\ currentIndex.row = row

\* A row was added at a selected row that is not the last one.
C9_Witness ==
    /\ lastEdit.op = "addRow"
    /\ lastEdit.row >= 0
    /\ lastEdit.row < Len(lastEdit.items) - 1
    /\ currentIndex.row = lastEdit.row
    /\ Len(items) = Len(lastEdit.items) + 1

\* C10: removeRow with the row r selected deletes exactly the item at r and
\* moves the cursor to min(r, rowCount-1) of the new row count; with no row
\* selected it changes neither the items nor the cursor.
C10_RemoveRow ==
    lastEdit.op = "removeRow" =>
        IF lastEdit.row < 0
        THEN /\ items = lastEdit.items
             /\ currentIndex = [row |-> lastEdit.row, column |-> lastEdit.column]
        ELSE /\ Len(items) = Len(lastEdit.items) - 1
             /\ \A i \in 1..Len(items) :
                   items[i] = lastEdit.items[IF i <= lastEdit.row THEN i ELSE i + 1]
             /\ currentIndex.row = Min(lastEdit.row, Len(items) - 1)

\* The last of several rows was removed: the cursor moved up by one row.
C10_Witness ==
    /\ lastEdit.op = "removeRow"
    /\ lastEdit.row = Len(lastEdit.items) - 1
    /\ Len(items) >= 1
    /\ Len(items) = Len(lastEdit.items) - 1
    /\ currentIndex.row = lastEdit.row - 1

\* C11: moveRow(+1 or -1) with the row r selected and r+number an existing row
\* swaps the items of the rows r and r+number, leaves every other row and the
\* row count as they were, and the cursor follows the moved item; wherever
\* the target is, the cursor of a moveRow with a row selected ends on an
\* existing row.
C11_MoveRow ==
    (lastEdit.op = "moveRow" /\ lastEdit.row >= 0) =>
        LET r      == lastEdit.row
            target == r + lastEdit.number
        IN  /\ (0 <= target /\ target <= Len(lastEdit.items) - 1) =>
                  /\ Len(items) = Len(lastEdit.items)
                  /\ items[r + 1] = lastEdit.items[target + 1]
                  /\ items[target + 1] = lastEdit.items[r + 1]
                  /\ \A i \in 1..Len(items) :
                        (i # r + 1 /\ i # target + 1) => items[i] = lastEdit.items[i]
                  /\ currentIndex.row = target
            /\ 0 <= currentIndex.row
            /\ currentIndex.row <= rowCount(items) - 1

\* The middle row of three was moved down and the cursor went with it.
C11_Witness ==
    /\ lastEdit.op = "moveRow"
    /\ lastEdit.number = 1
    /\ lastEdit.row = 1
    /\ Len(lastEdit.items) = 3
    /\ items[3] = lastEdit.items[2]
    /\ currentIndex.row = 2

\* C12: after any sequence of addRow, removeRow and moveRow the buttons are
\* what updateWidgets computes from the current row and the row count: Add
\* enabled, Remove iff 0 <= row < rowCount, Move Up iff 1 <= row < rowCount,
\* Move Down iff 0 <= row < rowCount-1.
C12_ButtonsFitTable ==
    LET row     == currentIndex.row
        numRows == rowCount(items)
    IN  /\ buttons.add
        /\ buttons.remove   <=> (0 <= row /\ row < numRows)
        /\ buttons.moveUp   <=> (1 <= row /\ row < numRows)
        /\ buttons.moveDown <=> (0 <= row /\ row < numRows - 1)

\* C13: removeRow on a table of one row, that row selected, leaves no row,
\* no valid current row, and Remove, Move Up and Move Down disabled.
C13_RemoveOnlyRow ==
    (lastEdit.op = "removeRow" /\ Len(lastEdit.items) = 1 /\ lastEdit.row = 0) =>
        /\ rowCount(items) = 0
        /\ currentIndex.row < 0
        /\ ~buttons.remove
        /\ ~buttons.moveUp
        /\ ~buttons.moveDown

\* The only row, selected and so removable, was removed.
C13_Witness ==
    /\ lastEdit.op = "removeRow"
    /\ Len(lastEdit.items) = 1
    /\ lastEdit.row = 0
    /\ items = <<>>

\* C14: moveRow(-1) on row 0 leaves the order of the rows as it was and the
\* cursor on row 0; moveRow(+1) on the last row leaves the order as it was
\* and the cursor on the last row.
C14_MoveAtTheEdge ==
    /\ (lastEdit.op = "moveRow" /\ lastEdit.number = -1 /\ lastEdit.row = 0) =>
          /\ items = lastEdit.items
          /\ currentIndex.row = 0
    /\ (lastEdit.op = "moveRow" /\ lastEdit.number = 1 /\ lastEdit.row >= 0
            /\ lastEdit.row = Len(lastEdit.items) - 1) =>
          /\ items = lastEdit.items
          /\ currentIndex.row = Len(items) - 1

\* The last of several rows was asked to move down.
C14_Witness ==
    /\ lastEdit.op = "moveRow"
    /\ lastEdit.number = 1
    /\ Len(lastEdit.items) >= 2
    /\ lastEdit.row = Len(lastEdit.items) - 1
    /\ currentIndex.row = lastEdit.row

\* =========================================================================
\* Properties of the netCDF repo tree items
\* =========================================================================
FileNode == ncNodes[<<>>]
NodeBefore == ncLast.nodes[ncLast.path]
NodeAfter == ncNodes[ncLast.path]

\* C15: the children of a netCDF group or variable node are enumerated at
\* most once: _fetchAllChildren runs only on a node that can still fetch its
\* children, it sets childrenFetched, and a later fetch changes nothing.
C15_ChildrenFetchedOnce ==
    /\ \A p \in DOMAIN ncNodes : ncNodes[p].fetchCount <= 1
    /\ ncFailure # "canFetchChildren must be True"
    /\ ncLast.ran = "_fetchAllChildren" =>
          /\ canFetchChildren(NodeBefore)
          /\ NodeAfter.childrenFetched
    /\ (ncLast.op = "fetchChildren" /\ NodeBefore.childrenFetched) =>
          /\ ncLast.ran = ""
          /\ ncNodes = ncLast.nodes

\* The children of a group below the file node were asked for a second time.
C15_Witness ==
    /\ ncLast.op = "fetchChildren"
    /\ ncLast.path # <<>>
    /\ NodeBefore.kind = "group"
    /\ NodeBefore.childrenFetched
    /\ NodeBefore.isOpen
    /\ NodeAfter.fetchCount = 1

\* C16: no sequence of open, fetch and close on a netCDF file node runs
\* _fetchAllChildren while the dataset handle is unset: the assertion
\* 'dataset undefined (file not opened?)' never fails.
C16_DatasetDefinedAtFetch ==
    /\ ncFailure # "dataset undefined (file not opened?)"
    /\ (ncLast.ran = "_fetchAllChildren" /\ NodeBefore.kind = "file") =>
          NodeBefore.nc # NoDataset

\* The children of the opened file node were fetched.
C16_Witness ==
    /\ ncLast.op = "fetchChildren"
    /\ ncLast.path = <<>>
    /\ ncLast.ran = "_fetchAllChildren"
    /\ FileNode.childrenFetched
    /\ <<1>> \in DOMAIN ncNodes

\* C17: the file node is created without a dataset handle, _openResources
\* sets it, _closeResources closes and unsets it, and _closeResources only
\* runs on a handle that _openResources has set and no _closeResources has
\* unset since: no close before the first open and no close twice.
C17_OpenCloseInPairs ==
    /\ ncLast.op = "init" => FileNode.nc = NoDataset
    /\ ncFailure # "close of None"
    /\ FileNode.isOpen <=> FileNode.nc # NoDataset
    /\ (ncLast.path = <<>> /\ ncLast.ran = "_openResources") =>
          /\ NodeBefore.nc = NoDataset
          /\ NodeAfter.nc = RootDataset
    /\ (ncLast.path = <<>> /\ ncLast.ran = "_closeResources") =>
          /\ NodeBefore.nc = RootDataset
          /\ NodeAfter.nc = NoDataset
    /\ (ncLast.path = <<>> /\ ncLast.op = "close" /\ NodeBefore.nc = NoDataset) =>
          ncLast.ran = ""

\* The file node was closed after its children had been fetched.
C17_Witness ==
    /\ ncLast.op = "close"
    /\ ncLast.path = <<>>
    /\ ncLast.ran = "_closeResources"
    /\ FileNode.childrenFetched
    /\ FileNode.nc = NoDataset

\* =========================================================================
\* Properties of the field node of a compound netCDF variable
\* =========================================================================

RECURSIVE UpToFirstFailure(_)
UpToFirstFailure(fileNames) ==
    IF fileNames = <<>> THEN <<>>
    ELSE IF Head(fileNames) \in unreadable THEN <<Head(fileNames)>>
    ELSE <<Head(fileNames)>> \o UpToFirstFailure(Tail(fileNames))

Failures(fileNames) == SelectSeq(fileNames, LAMBDA f : f \in unreadable)

\* C19: openFiles attempts the given files once each, in the order of the
\* list. When loading a file raises an Exception: outside debug mode the
\* exception does not leave openFiles, one warning dialog is shown for that
\* file and the files after it are still attempted; in debug mode the
\* exception leaves openFiles, no dialog is shown and the files after it are
\* not attempted.
C19_OpenFiles ==
    openRun.called =>
        IF debugging
        THEN /\ openRun.attempted = UpToFirstFailure(openRun.fileNames)
             /\ openRun.warnings = <<>>
             /\ openRun.raised <=> Failures(openRun.fileNames) # <<>>
        ELSE /\ openRun.attempted = openRun.fileNames
             /\ openRun.warnings = Failures(openRun.fileNames)
             /\ ~openRun.raised

\* Outside debug mode the first of three files failed to load and the
\* other two were loaded after the warning.
C19_Witness ==
    /\ openRun.called
    /\ ~debugging
    /\ Len(openRun.fileNames) = 3
    /\ openRun.warnings = <<openRun.fileNames[1]>>
    /\ Len(openRun.loaded) = 2

\* C26: the 'Open As' action made for a registered RTI class, which has the
\* label of that class, opens the chosen files as that class when it is
\* triggered, whatever the number of registered classes.
C26_OpenAsOwnClass ==
    openRun.action # <<>> =>
        /\ openRun.action = getLabel(openRun.rtiClass)
        /\ openRun.caption = <<"Open", openRun.action>>

\* =========================================================================
\* Properties of the RegistryTab
\* =========================================================================

\* C20: a failing plugin import is kept in the entry and stops nothing;
\* every entry is in one of the three import states; selecting an entry that
\* was not attempted, with importOnSelect, makes one import attempt of it;
\* after a selection the detail text is '<plugin not yet imported>', the
\* text of the exception, or the description or doc string, by the state of
\* the selected entry; 'Test Loading All' attempts the entries that were
\* not tried before and no other, so that no entry is imported twice.
C20_ImportStates ==
    /\ \A i \in 1..Len(regItems) :
          /\ regItems[i].successfullyImported \in {"None", "True", "False"}
          /\ regItems[i].successfullyImported = "False" <=> regItems[i].exception # ""
          /\ regItems[i].attempts <= 1
          /\ regItems[i].attempts = 0 <=> ~triedImport(regItems[i])
    /\ (tabLast.event.type = "select" /\ tabLast.event.row # tabLast.currentRow) =>
          LET row == tabLast.event.row
          IN  /\ (importOnSelectFlag /\ ~triedImport(tabLast.regItems[row])) =>
                    regItems[row].attempts = 1
              /\ ~importOnSelectFlag => regItems = tabLast.regItems
              /\ editor = DetailText(regItems[currentRow])
    /\ tabLast.event.type = "loadAll" =>
          \A i \in 1..Len(regItems) :
              /\ triedImport(regItems[i])
              /\ regItems[i].attempts =
                     IF triedImport(tabLast.regItems[i])
                     THEN tabLast.regItems[i].attempts
                     ELSE 1

\* =========================================================================
\* Properties of the MainWindow
\* =========================================================================
ViewKey(instanceNr, name) ==
    SettingsKey(_settingsGroupName(instanceNr, "view"), name)

\* C21: every close event of a MainWindow writes its position, size and
\* splitter state under the group of its instance number before the window
\* is closed, and a MainWindow constructed later with that instance number
\* and reset=False gets exactly the values of the last such close event; a
\* key that was never written gives position (20*n, 20*n), size 1024x700.
C21_GeometryRoundTrip ==
    LET n      == winLast.instanceNr
        window == windows[n]
    IN  /\ winLast.op = "closeEvent" =>
              /\ window.closed
              /\ settings[ViewKey(n, "main_window/pos")] = window.pos
              /\ settings[ViewKey(n, "main_window/size")] = window.size
              /\ settings[ViewKey(n, "main_splitter/state")] = window.splitter
              /\ \A key \in DOMAIN winLast.settings :
                    key.group # _settingsGroupName(n, "view") =>
                        settings[key] = winLast.settings[key]
        /\ (winLast.op = "init" /\ ~winLast.reset) =>
              /\ n \in DOMAIN closedAs => Geometry(window) = closedAs[n]
              /\ ViewKey(n, "main_window/pos") \notin DOMAIN settings =>
                    window.pos = <<20 * n, 20 * n>>
              /\ ViewKey(n, "main_window/size") \notin DOMAIN settings =>
                    window.size = <<1024, 700>>

\* After a restart the second window came back as it was closed, which was
\* not as the first window was closed.
C21_Witness ==
    /\ winLast.op = "init"
    /\ ~winLast.reset
    /\ winLast.instanceNr = 2
    /\ 1 \in DOMAIN closedAs
    /\ 2 \in DOMAIN closedAs
    /\ closedAs[1] # closedAs[2]
    /\ closedAs[2] \in Arrangements
    /\ Geometry(windows[2]) = closedAs[2]

\* C25: a MainWindow constructed with reset=True reads nothing from the
\* settings store and leaves it as it is, and is placed at (20*n, 20*n)
\* with size 1024x700, n its instance number, whatever the store holds.
C25_ResetIgnoresStore ==
    (winLast.op = "init" /\ winLast.reset) =>
        LET n == winLast.instanceNr
        IN  /\ winLast.read = {}
            /\ settings = winLast.settings
            /\ windows[n].pos = <<20 * n, 20 * n>>
            /\ windows[n].size = <<1024, 700>>

\* A window was constructed with reset=True over a store that holds another
\* position and size for its instance number.
C25_Witness ==
    /\ winLast.op = "init"
    /\ winLast.reset
    /\ winLast.instanceNr = 2
    /\ ViewKey(2, "main_window/pos") \in DOMAIN settings
    /\ settings[ViewKey(2, "main_window/pos")] = <<3, 4>>
    /\ windows[2].pos = <<40, 40>>

\* =========================================================================
\* Properties of the PluginsDialog
\* =========================================================================

\* C24: the dialog works on a deep copy of the registry: while it is open
\* and after it was cancelled the original registry holds the items it held
\* when the dialog was made, unchanged by any import in the dialog; accept
\* clears the original and registers the items of the copy in their order, so
\* that the original then holds exactly the items of the copy.
C24_DialogEditsCopy ==
    /\ dlgLast.op \in {"init", "tryImportAllPlugins", "select", "reject"} =>
          /\ orgRegistry = dlgLast.orgRegistry
          /\ ItemsOf(objects, orgRegistry) = dlgLast.orgItems
          /\ \A i \in 1..Len(orgRegistry), j \in 1..Len(dlgRegistry) :
                orgRegistry[i] # dlgRegistry[j]
    /\ dlgLast.op = "init" =>
          ItemsOf(objects, dlgRegistry) = ItemsOf(objects, orgRegistry)
    /\ dlgLast.op = "accept" =>
          /\ orgRegistry = dlgRegistry
          /\ ItemsOf(objects, orgRegistry) = ItemsOf(objects, dlgRegistry)

\* The dialog was accepted after an import in it: the original holds the
\* items of the copy, which are not as the original's were.
C24_Witness ==
    /\ dlgLast.op = "accept"
    /\ dialogState = "accepted"
    /\ Len(orgRegistry) >= 2
    /\ ItemsOf(objects, orgRegistry) # dlgLast.orgItems

\* The dialog was cancelled after an import in it.
C24_WitnessCancelled ==
    /\ dlgLast.op = "reject"
    /\ ItemsOf(objects, dlgRegistry) # ItemsOf(objects, orgRegistry)

====
